---- MODULE Spec2Model ----
(***************************************************************************)
(* SRFT.  Ten specifications over one set of variables; each one moves the *)
(* variables of the component it models and leaves the others at their     *)
(* initial values:                                                         *)
(*                                                                         *)
(*   Spec            the client's reorder buffer (client/client_state.py), *)
(*                   the receive loop (client/receiver.py) and the end of  *)
(*                   main (client/srtf_udp_client.py);                     *)
(*   HandshakeSpec   send_syn_request (client/request_handler.py) and the  *)
(*                   start of main, up to the call of receive_file;        *)
(*   CodecSpec       encode_packet, decode_packet (common/packet.py) and   *)
(*                   compute_checksum (common/checksum.py) taken alone;    *)
(*   ServerSpec      the server's receive loop (server/srtf_udp_server.py) *)
(*                   with handle_datagram (server/receiver.py), the        *)
(*                   WindowManager (server/window_manager.py) and send_ack *)
(*                   (server/sender.py);                                   *)
(*   RetransmitSpec  the RetransmitQueue (server/retransmit_queue.py): add,*)
(*                   ack, and tick, one pass of tick's loop per action;    *)
(*   StatsSpec       TransferStats (common/stats.py) called by two threads,*)
(*                   one action per lock operation, field read or write.   *)
(*   LossySpec       the receive loop of Spec against a sender of          *)
(*                   NumChunks chunks whose frames are lost, duplicated and*)
(*                   reordered, every missing chunk retransmitted;         *)
(*   RawSpec         send_packet and receive_packet (common/rawsocket.py)  *)
(*                   on the bytes of one datagram;                         *)
(*   WindowSpec      the WindowManager taken alone: mark_received and      *)
(*                   pop_in_order in any order;                            *)
(*   TickSpec        RetransmitSpec with self.rto and self.max_retries     *)
(*                   chosen at construction, zero included, and a thread   *)
(*                   inside tick that keeps executing.                     *)
(*                                                                         *)
(* The client is single-threaded.  One action is one iteration of a loop   *)
(* of the source.  The raw socket is the environment: a receive attempt    *)
(* ends by the timeout or takes one datagram, and receive_packet is        *)
(* applied to it.  In Spec, HandshakeSpec and ServerSpec a datagram carries*)
(* the value decode_packet is documented to return for its application     *)
(* bytes (None or the header fields and the payload), and send_packet is   *)
(* recorded by the application frame it is handed; what decode_packet does *)
(* with bytes is CodecSpec, and what the raw socket functions do with them *)
(* is RawSpec.  In Spec the TransferStats object is only                   *)
(* written by the loop and never read by it, and its counters are not part *)
(* of that state; StatsSpec models the object by itself.                   *)
(*                                                                         *)
(* An Optional[int] that can hold any int is a set, empty for None.  Times *)
(* are integers: quarters of a second in the handshake, fifths of a second *)
(* in the retransmit queue, ticks of time.time() in the statistics.        *)
(***************************************************************************)
EXTENDS Integers, Sequences, FiniteSets, TLC

(* ------------------------------------------------------------------ *)
(* Program constants                                                   *)
(* ------------------------------------------------------------------ *)
SERVER_PORT == 5005
CLIENT_PORT == 5006
MAX_PAYLOAD_SIZE == 1400
WINDOW_SIZE == 10
FLAG_SYN == 1
FLAG_ACK == 2
FLAG_FIN == 4
FLAG_DATA == 8
CUSTOM_HEADER_SIZE == 15

\* the seq guard of ClientState.store_chunk
MAX_SEQ == 1000000
\* receive_file: max_consecutive_timeouts
max_consecutive_timeouts == 10
\* receive_file: the number of FIN_ACK copies
FIN_ACK_COPIES == 3
\* send_syn_request: retries; max_wait_time (2.0 s) and the timeout of its
\* receive_packet calls (0.5 s), both in quarters of a second
retries == 5
max_wait_time == 8
syn_recv_timeout == 2
\* Python's None, where an int is expected (fin_seq: Optional[int])
None == -1

(* ------------------------------------------------------------------ *)
(* Bounds of the model                                                 *)
(* ------------------------------------------------------------------ *)
\* datagrams that pass receive_packet during one receive_file call
MaxFrames == 3
\* datagrams read from the socket during one send_syn_request call
MaxHandshakeDatagrams == 3

(* ------------------------------------------------------------------ *)
(* Bit operations on flags                                             *)
(* ------------------------------------------------------------------ *)
RECURSIVE BitAnd(_, _)
BitAnd(a, b) ==
    IF a = 0 \/ b = 0 THEN 0
    ELSE (a % 2) * (b % 2) + 2 * BitAnd(a \div 2, b \div 2)

RECURSIVE BitOr(_, _)
BitOr(a, b) ==
    IF a = 0 THEN b
    ELSE IF b = 0 THEN a
    ELSE (IF a % 2 = 1 \/ b % 2 = 1 THEN 1 ELSE 0) + 2 * BitOr(a \div 2, b \div 2)

FLAG_SYN_ACK == BitOr(FLAG_SYN, FLAG_ACK)
FLAG_FIN_DATA == BitOr(FLAG_FIN, FLAG_DATA)
FLAG_FIN_ACK == BitOr(FLAG_FIN, FLAG_ACK)

(* ------------------------------------------------------------------ *)
(* Inputs                                                              *)
(* ------------------------------------------------------------------ *)
\* payloads: empty, one byte, and MAX_PAYLOAD_SIZE + 1 bytes
Oversize == [i \in 1..(MAX_PAYLOAD_SIZE + 1) |-> 0]
Payloads == {<< >>, <<1>>, Oversize}

\* chunk indices that arrive: the first three, and the two around the seq guard
Seqs == {0, 1, 2, MAX_SEQ, MAX_SEQ + 1}

\* the conn_id main draws, and the conn_ids frames carry
ClientConnIds == {7}
ConnIds == {7, 9}

\* flags bytes that arrive: with and without the DATA bit and the FIN bit
FlagValues == {FLAG_ACK, FLAG_FIN_ACK, FLAG_DATA, FLAG_FIN_DATA,
               BitOr(FLAG_DATA, FLAG_ACK)}

\* what decode_packet returns for a frame it accepts
Packets ==
    [seq_num : Seqs, ack_num : {0}, flags : FlagValues, conn_id : ConnIds,
     payload : Payloads]

\* frames given to encode_packet: a small and a large seq_num (31 bits set), the six
\* flags bytes of the protocol, DATA|ACK and 0, payloads around MAX_PAYLOAD_SIZE
MaxPayload == [i \in 1..MAX_PAYLOAD_SIZE |-> 0]
CodecFlags == {FLAG_SYN, FLAG_SYN_ACK, FLAG_DATA, FLAG_FIN_DATA, FLAG_ACK,
               FLAG_FIN_ACK, BitOr(FLAG_DATA, FLAG_ACK), 0}
CodecFrames ==
    [seq_num : {1, 2147483647}, ack_num : {0}, flags : CodecFlags,
     payload : {<< >>, <<1>>, <<255, 255, 3>>, MaxPayload, Oversize},
     conn_id : ClientConnIds]
NoFrame == [none |-> TRUE]

\* byte strings shorter than a header that arrive as application bytes
SomeBytes == {0, 1, 128, 255}
ShortInputs ==
    {<< >>} \cup [1..1 -> SomeBytes] \cup [1..2 -> SomeBytes] \cup [1..3 -> SomeBytes]

(* ------------------------------------------------------------------ *)
(* client/client_state.py: ClientState                                 *)
(* ------------------------------------------------------------------ *)
EmptyBuffer == [k \in {} |-> << >>]

\* ClientState(): the dataclass defaults
ClientState ==
    [expected_seq |-> 0, buffer |-> EmptyBuffer, fin_seq |-> None,
     p_total |-> 0, p_valid |-> 0, p_invalid |-> 0, p_duplicate |-> 0,
     chunks_written |-> 0]

\* self.buffer[seq] = payload
BufferPut(buf, seq, payload) ==
    [k \in (DOMAIN buf) \cup {seq} |-> IF k = seq THEN payload ELSE buf[k]]

\* self.buffer.pop(seq): the dict without seq
BufferPop(buf, seq) == [k \in (DOMAIN buf) \ {seq} |-> buf[k]]

\* store_chunk without the "seq in self.buffer" test: a second copy of a
\* buffered index replaces the first
store_chunk_Overwrite(st, seq, payload) ==
    IF Len(payload) > MAX_PAYLOAD_SIZE THEN st
    ELSE IF seq > MAX_SEQ THEN st
    ELSE IF seq < st.expected_seq
        THEN [st EXCEPT !.p_duplicate = @ + 1]
    ELSE [st EXCEPT !.buffer = BufferPut(@, seq, payload)]

\* store_chunk that moves expected_seq itself when the chunk is the expected one
store_chunk_Advance(st, seq, payload) ==
    IF Len(payload) > MAX_PAYLOAD_SIZE THEN st
    ELSE IF seq > MAX_SEQ THEN st
    ELSE IF seq < st.expected_seq
        THEN [st EXCEPT !.p_duplicate = @ + 1]
    ELSE IF seq \in DOMAIN st.buffer
        THEN [st EXCEPT !.p_duplicate = @ + 1]
    ELSE IF seq = st.expected_seq
        THEN [st EXCEPT !.buffer = BufferPut(@, seq, payload), !.expected_seq = @ + 1]
    ELSE [st EXCEPT !.buffer = BufferPut(@, seq, payload)]

\* store_chunk without the "seq > 1_000_000" guard
store_chunk_NoSeqGuard(st, seq, payload) ==
    IF Len(payload) > MAX_PAYLOAD_SIZE THEN st
    ELSE IF seq < st.expected_seq
        THEN [st EXCEPT !.p_duplicate = @ + 1]
    ELSE IF seq \in DOMAIN st.buffer
        THEN [st EXCEPT !.p_duplicate = @ + 1]
    ELSE [st EXCEPT !.buffer = BufferPut(@, seq, payload)]

\* store_chunk that drops a duplicate without counting it
store_chunk_DupUncounted(st, seq, payload) ==
    IF Len(payload) > MAX_PAYLOAD_SIZE THEN st
    ELSE IF seq > MAX_SEQ THEN st
    ELSE IF seq < st.expected_seq THEN st
    ELSE IF seq \in DOMAIN st.buffer THEN st
    ELSE [st EXCEPT !.buffer = BufferPut(@, seq, payload)]

\* store_chunk with the seq guard off by one: seq >= 1_000_000 is dropped
store_chunk_SeqGuardOffByOne(st, seq, payload) ==
    IF Len(payload) > MAX_PAYLOAD_SIZE THEN st
    ELSE IF seq >= MAX_SEQ THEN st
    ELSE IF seq < st.expected_seq
        THEN [st EXCEPT !.p_duplicate = @ + 1]
    ELSE IF seq \in DOMAIN st.buffer
        THEN [st EXCEPT !.p_duplicate = @ + 1]
    ELSE [st EXCEPT !.buffer = BufferPut(@, seq, payload)]

\* ClientState.store_chunk(seq, payload): the state after the call
store_chunk(st, seq, payload) ==
    IF Len(payload) > MAX_PAYLOAD_SIZE THEN st
    ELSE IF seq > MAX_SEQ THEN st
    ELSE IF seq < st.expected_seq
        THEN [st EXCEPT !.p_duplicate = @ + 1]
    ELSE IF seq \in DOMAIN st.buffer
        THEN [st EXCEPT !.p_duplicate = @ + 1]
    ELSE [st EXCEPT !.buffer = BufferPut(@, seq, payload)]

\* write_chunk that reads self.buffer[self.expected_seq] and leaves it in the dict
RECURSIVE write_chunk_NoPop(_, _)
write_chunk_NoPop(st, file) ==
    IF st.expected_seq \in DOMAIN st.buffer
    THEN write_chunk_NoPop(
             [st EXCEPT !.expected_seq = @ + 1, !.chunks_written = @ + 1],
             file \o st.buffer[st.expected_seq])
    ELSE [state |-> st, file |-> file]

\* write_chunk with `if` in place of `while`: one chunk written per call
write_chunk_Once(st, file) ==
    IF st.expected_seq \in DOMAIN st.buffer
    THEN [state |-> [st EXCEPT !.buffer = BufferPop(@, st.expected_seq),
                               !.expected_seq = @ + 1,
                               !.chunks_written = @ + 1],
          file |-> file \o st.buffer[st.expected_seq]]
    ELSE [state |-> st, file |-> file]

\* ClientState.write_chunk(fp): the state and the file contents after the call
RECURSIVE write_chunk(_, _)
write_chunk(st, file) ==
    IF st.expected_seq \in DOMAIN st.buffer
    THEN write_chunk(
             [st EXCEPT !.buffer = BufferPop(@, st.expected_seq),
                        !.expected_seq = @ + 1,
                        !.chunks_written = @ + 1],
             file \o st.buffer[st.expected_seq])
    ELSE [state |-> st, file |-> file]

(* ------------------------------------------------------------------ *)
(* common/checksum.py                                                  *)
(* ------------------------------------------------------------------ *)
\* the loop body with the carry dropped: checksum = (checksum + word) & 0xFFFF
fold_word_Masked(checksum, word) == (checksum + word) % 65536

\* one pass of the loop body after the word is read:
\* checksum += word; checksum = (checksum & 0xFFFF) + (checksum >> 16)
fold_word(checksum, word) ==
    ((checksum + word) % 65536) + ((checksum + word) \div 65536)

\* the word read at index i (0-based, as in the source): (data[i] << 8) +
\* data[i + 1], or data[i] << 8 for a last odd byte
word_at(data, i) ==
    IF i + 1 < Len(data) THEN data[i + 1] * 256 + data[i + 2]
    ELSE data[i + 1] * 256

\* for i in range(i, stop, 2): the value of checksum after these passes, the
\* words folded in from left to right.  The passes are split in two halves, the
\* first evaluated (half is never negative) before the second starts, so that
\* the evaluation of 1415 bytes does not nest 708 deep.
RECURSIVE checksum_loop(_, _, _, _)
checksum_loop(data, i, stop, checksum) ==
    IF i >= stop THEN checksum
    ELSE IF i + 2 >= stop THEN fold_word(checksum, word_at(data, i))
    ELSE LET mid == i + 2 * (((stop - i + 1) \div 2) \div 2)
             half == checksum_loop(data, i, mid, checksum)
         IN IF half >= 0 THEN checksum_loop(data, mid, stop, half) ELSE half

\* compute_checksum(data): ~checksum & 0xFFFF after the loop
compute_checksum(data) == (-checksum_loop(data, 0, Len(data), 0) - 1) % 65536

\* verify_checksum(data, expected_checksum)
verify_checksum(data, expected_checksum) ==
    compute_checksum(data) = expected_checksum

(* ------------------------------------------------------------------ *)
(* common/packet.py                                                    *)
(* ------------------------------------------------------------------ *)
\* struct.pack of one unsigned field of n bytes, big-endian
pack_uint(v, n) == [i \in 1..n |-> (v \div (256 ^ (n - i))) % 256]

\* struct.pack(HEADER_FORMAT, ...) with HEADER_FORMAT = '!IIHHBH': 15 bytes
struct_pack(seq_num, ack_num, checksum, payload_length, flags, cid) ==
    pack_uint(seq_num, 4) \o pack_uint(ack_num, 4) \o pack_uint(checksum, 2)
        \o pack_uint(payload_length, 2) \o pack_uint(flags, 1) \o pack_uint(cid, 2)

\* struct.pack raises struct.error for a value outside its field: 32 bits for
\* seq_num and ack_num, 8 for flags, 16 for conn_id
in_field_range(seq_num, ack_num, flags, cid) ==
    /\ seq_num >= 0 /\ seq_num \div 65536 < 65536
    /\ ack_num >= 0 /\ ack_num \div 65536 < 65536
    /\ flags >= 0 /\ flags < 256
    /\ cid >= 0 /\ cid < 65536

\* big-endian value of the bytes first..last (1-based) of b
RECURSIVE unpack_uint(_, _, _)
unpack_uint(b, first, last) ==
    IF first > last THEN 0
    ELSE unpack_uint(b, first, last - 1) * 256 + b[last]

\* struct.unpack(HEADER_FORMAT, header_bytes)
struct_unpack(header_bytes) ==
    [seq_num |-> unpack_uint(header_bytes, 1, 4),
     ack_num |-> unpack_uint(header_bytes, 5, 8),
     checksum |-> unpack_uint(header_bytes, 9, 10),
     payload_length |-> unpack_uint(header_bytes, 11, 12),
     flags |-> unpack_uint(header_bytes, 13, 13),
     conn_id |-> unpack_uint(header_bytes, 14, 15)]

\* an exception leaving a function
Raised(exception) == [raised |-> exception]

\* encode_packet with the size test off by one: a payload of MAX_PAYLOAD_SIZE
\* bytes is refused
encode_packet_OffByOne(seq_num, ack_num, flags, payload, cid) ==
    IF Len(payload) >= MAX_PAYLOAD_SIZE THEN Raised("ValueError")
    ELSE IF ~in_field_range(seq_num, ack_num, flags, cid) THEN Raised("struct.error")
    ELSE
        LET header_no_checksum ==
                struct_pack(seq_num, ack_num, 0, Len(payload), flags, cid)
            checksum == compute_checksum(header_no_checksum \o payload)
        IN [bytes |-> struct_pack(seq_num, ack_num, checksum, Len(payload),
                                  flags, cid) \o payload]

\* encode_packet(seq_num, ack_num, flags, payload, conn_id): the exception it
\* raises, or the bytes it returns
encode_packet(seq_num, ack_num, flags, payload, cid) ==
    IF Len(payload) > MAX_PAYLOAD_SIZE THEN Raised("ValueError")
    ELSE IF ~in_field_range(seq_num, ack_num, flags, cid) THEN Raised("struct.error")
    ELSE
        LET header_no_checksum ==
                struct_pack(seq_num, ack_num, 0, Len(payload), flags, cid)
            checksum == compute_checksum(header_no_checksum \o payload)
        IN [bytes |-> struct_pack(seq_num, ack_num, checksum, Len(payload),
                                  flags, cid) \o payload]

\* decode_packet returning None
NoPacket == [none |-> TRUE]

\* decode_packet(raw_data).  After the header is unpacked the source evaluates
\* payload = raw_data[CUSTOM_HEADER_SIZE], an index and not a slice: IndexError
\* when raw_data has exactly 15 bytes, otherwise an int, and len(payload) in the
\* next statement raises TypeError.  Nothing below that statement is reached.
decode_packet(raw_data) ==
    IF Len(raw_data) < CUSTOM_HEADER_SIZE THEN NoPacket
    ELSE
        LET header == struct_unpack(SubSeq(raw_data, 1, CUSTOM_HEADER_SIZE)) IN
        IF CUSTOM_HEADER_SIZE + 1 > Len(raw_data) THEN Raised("IndexError")
        ELSE Raised("TypeError")

(* ------------------------------------------------------------------ *)
(* common/packet.py, common/rawsocket.py as the receive loop uses them *)
(* ------------------------------------------------------------------ *)
\* the application frame encode_packet is given (its header fields and payload)
Frame(seq_num, ack_num, flags, payload, cid) ==
    [seq_num |-> seq_num, ack_num |-> ack_num, flags |-> flags,
     payload |-> payload, conn_id |-> cid]

\* a receive attempt: the timeout (or an OSError), or one raw datagram.  too_short:
\* fewer than 20 bytes, or fewer than ihl + 8.  decoded: the value of
\* decode_packet(raw_data[ihl + 8:]), None or a packet.
Timeout == [kind |-> "timeout"]
Datagrams ==
    [kind : {"datagram"}, too_short : {TRUE}, dst_port : {CLIENT_PORT, SERVER_PORT},
     decoded : {NoPacket}]
    \cup [kind : {"datagram"}, too_short : {FALSE}, dst_port : {SERVER_PORT},
          decoded : {NoPacket}]
    \cup [kind : {"datagram"}, too_short : {FALSE}, dst_port : {CLIENT_PORT},
          decoded : {NoPacket} \cup Packets]
Arrivals == {Timeout} \cup Datagrams

\* receive_packet(sock, expected_port, timeout): None, or the tuple (packet, ...)
NoResult == [none |-> TRUE]
receive_packet(arrival, expected_port) ==
    IF arrival.kind = "timeout" THEN NoResult
    ELSE IF arrival.too_short THEN NoResult
    ELSE IF arrival.dst_port # expected_port THEN NoResult
    ELSE [packet |-> arrival.decoded]

(* ------------------------------------------------------------------ *)
(* common/rawsocket.py on bytes                                        *)
(* ------------------------------------------------------------------ *)
\* struct.pack('!' + count * 'H', *values): struct.error unless count values
\* are given, each of 16 bits
RECURSIVE pack_shorts(_)
pack_shorts(values) ==
    IF values = << >> THEN << >>
    ELSE pack_uint(Head(values), 2) \o pack_shorts(Tail(values))

struct_pack_H(count, values) ==
    IF Len(values) # count THEN Raised("struct.error")
    ELSE IF \E i \in 1..Len(values) : values[i] < 0 \/ values[i] >= 65536
        THEN Raised("struct.error")
    ELSE [bytes |-> pack_shorts(values)]

\* struct.pack('!BBHHHBBH4s4s', ...) of build_ip_header, f holding the ten
\* values, the addresses being what socket.inet_aton returned
ip_header_pack(f) ==
    pack_uint(f.version_ihl, 1) \o pack_uint(f.tos, 1)
        \o pack_uint(f.total_length, 2) \o pack_uint(f.identification, 2)
        \o pack_uint(f.flags_fragment, 2) \o pack_uint(f.ttl, 1)
        \o pack_uint(f.protocol, 1) \o pack_uint(f.header_checksum, 2)
        \o f.src_ip_bytes \o f.dst_ip_bytes

\* build_ip_header(src_ip, dst_ip, udp_length): the header packed with checksum
\* 0, the one's-complement sum of its ten words, the header packed again
build_ip_header(src_ip, dst_ip, udp_length) ==
    LET fields == [version_ihl |-> 4 * 16 + 5, tos |-> 0,
                   total_length |-> 20 + udp_length, identification |-> 54321,
                   flags_fragment |-> 0 * 8192 + 0, ttl |-> 64, protocol |-> 17,
                   header_checksum |-> 0, src_ip_bytes |-> src_ip,
                   dst_ip_bytes |-> dst_ip]
        ip_header == ip_header_pack(fields)
        checksum == (-checksum_loop(ip_header, 0, Len(ip_header), 0) - 1) % 65536
    IN ip_header_pack([fields EXCEPT !.header_checksum = checksum])

\* build_udp_header(src_port, dst_port, payload_length): the format '!HHH' is
\* given four values
build_udp_header(src_port, dst_port, payload_length) ==
    LET udp_length == 8 + payload_length
        udp_checksum == 0
    IN struct_pack_H(3, <<src_port, dst_port, udp_length, udp_checksum>>)

\* send_packet(sock, packet_bytes, src_ip, dst_ip, src_port, dst_port): what
\* is given to sock.sendto, or the exception that leaves the function
send_packet(packet_bytes, src_ip, dst_ip, src_port, dst_port) ==
    LET udp_header == build_udp_header(src_port, dst_port, Len(packet_bytes)) IN
    IF "raised" \in DOMAIN udp_header THEN udp_header
    ELSE LET udp_length == Len(udp_header.bytes) + Len(packet_bytes)
             ip_header == build_ip_header(src_ip, dst_ip, udp_length)
         IN [sendto |-> ip_header \o udp_header.bytes \o packet_bytes]

\* what sock.recvfrom does: it raises socket.timeout, or it returns
\* (raw_data, addr); and no datagram at all
SocketTimeout == [timeout |-> TRUE]
Received(raw_data, sender_ip) == [raw_data |-> raw_data, sender_ip |-> sender_ip]
NoDatagram == [none |-> TRUE]

\* receive_packet(sock, expected_port, timeout), recv being what recvfrom
\* does: None, the tuple, or the exception decode_packet raises
receive_packet_bytes(recv, expected_port) ==
    IF recv = SocketTimeout THEN NoResult
    ELSE IF Len(recv.raw_data) < 20 THEN NoResult
    ELSE
        LET raw_data == recv.raw_data
            sender_ip == recv.sender_ip
            ihl == (raw_data[1] % 16) * 4
        IN
        IF Len(raw_data) < ihl + 8 THEN NoResult
        ELSE
            LET src_port == unpack_uint(raw_data, ihl + 1, ihl + 2)
                dst_port == unpack_uint(raw_data, ihl + 3, ihl + 4)
                custom_packet == SubSeq(raw_data, ihl + 9, Len(raw_data))
                packet_dict == decode_packet(custom_packet)
            IN
            IF dst_port # expected_port THEN NoResult
            ELSE IF packet_dict # NoPacket /\ "raised" \in DOMAIN packet_dict
                THEN packet_dict
            ELSE [packet |-> packet_dict, sender_ip |-> sender_ip,
                  src_port |-> src_port]

(* ------------------------------------------------------------------ *)
(* server/server_state.py: ServerConfig                                *)
(* ------------------------------------------------------------------ *)
\* cfg.window_size, set by --window: a small window, so that indices beyond it
\* are among the inputs
window_size == 2

(* ------------------------------------------------------------------ *)
(* server/window_manager.py: WindowManager                             *)
(* ------------------------------------------------------------------ *)
\* WindowManager(window_size=cfg.window_size): the dataclass defaults
WindowManager == [expected_seq |-> 0, buffer |-> EmptyBuffer, received |-> {}]

in_window(wm, seq) ==
    wm.expected_seq <= seq /\ seq < wm.expected_seq + window_size

\* mark_received without the in_window test: every new index is stored
mark_received_NoWindow(wm, seq, payload) ==
    IF seq < wm.expected_seq THEN
        [wm |-> wm, is_new |-> FALSE, triggered |-> FALSE]
    ELSE IF seq \in wm.received THEN
        [wm |-> wm, is_new |-> FALSE, triggered |-> FALSE]
    ELSE
        [wm |-> [wm EXCEPT !.received = @ \cup {seq},
                           !.buffer = BufferPut(@, seq, payload)],
         is_new |-> TRUE, triggered |-> (seq = wm.expected_seq)]

\* mark_received(seq, payload): the window after the call and the tuple
\* (is_new, is_in_order_delivery_trigger) it returns
mark_received(wm, seq, payload) ==
    IF seq < wm.expected_seq THEN
        [wm |-> wm, is_new |-> FALSE, triggered |-> FALSE]
    ELSE IF seq \in wm.received THEN
        [wm |-> wm, is_new |-> FALSE, triggered |-> FALSE]
    ELSE IF ~in_window(wm, seq) THEN
        [wm |-> wm, is_new |-> TRUE, triggered |-> FALSE]
    ELSE
        [wm |-> [wm EXCEPT !.received = @ \cup {seq},
                           !.buffer = BufferPut(@, seq, payload)],
         is_new |-> TRUE, triggered |-> (seq = wm.expected_seq)]

\* pop_in_order(): the window after the call and the list `out` of
\* (seq, payload) it returns; out is the list collected so far
RECURSIVE pop_in_order_loop(_, _)
pop_in_order_loop(wm, out) ==
    IF wm.expected_seq \in DOMAIN wm.buffer THEN
        pop_in_order_loop(
            [wm EXCEPT !.buffer = BufferPop(@, wm.expected_seq),
                       !.expected_seq = @ + 1],
            Append(out, <<wm.expected_seq, wm.buffer[wm.expected_seq]>>))
    ELSE [wm |-> wm, out |-> out]

pop_in_order(wm) == pop_in_order_loop(wm, << >>)

(* ------------------------------------------------------------------ *)
(* server/receiver.py, server/sender.py: the values they build         *)
(* ------------------------------------------------------------------ *)
\* ReceiveResult(ack_seq, close).  ack_seq is Optional[int] and -1 is among its
\* int values: None is the empty set, the int n is {n}
ReceiveResult(ack_seq, close) == [ack_seq |-> ack_seq, close |-> close]

\* _decode_and_verify: the "type" given to what decode_packet returned.
\* "FLAG_HELLO" in globals() is false: the module has no such global
msg_type(flags) ==
    IF BitAnd(flags, FLAG_ACK) # 0 THEN "ACK"
    ELSE IF BitAnd(flags, FLAG_FIN) # 0 THEN "FIN"
    ELSE "DATA"

\* _decode_and_verify(raw), pkt being decode_packet(raw): None, or the dict
decode_and_verify(pkt) ==
    IF pkt = NoPacket THEN NoPacket
    ELSE [type |-> msg_type(pkt.flags), seq |-> pkt.seq_num, ack |-> pkt.ack_num,
          flags |-> pkt.flags, conn_id |-> pkt.conn_id, payload |-> pkt.payload]

\* Sender._build_ack(ack_seq): the frame given to encode_packet
build_ack(ack_seq) == Frame(0, ack_seq, FLAG_ACK, << >>, 0)

\* state.stats: the dict ServerState starts with
ServerStats ==
    [pkts_in |-> 0, pkts_out |-> 0, data_in |-> 0, acks_out |-> 0, dup_in |-> 0,
     corrupt_in |-> 0, out_of_order_in |-> 0, delivered |-> 0]

\* state.file_ctx: fp not opened, nothing written
FileReceiveContext == [opened |-> FALSE, written |-> << >>, written_chunks |-> 0]

\* Receiver._deliver_to_file(chunks): open the file if it is not open, write
\* each payload
RECURSIVE deliver_to_file(_, _)
deliver_to_file(file, chunks) ==
    IF chunks = << >> THEN [file EXCEPT !.opened = TRUE]
    ELSE deliver_to_file(
            [file EXCEPT !.written = @ \o Head(chunks)[2], !.written_chunks = @ + 1],
            Tail(chunks))

\* Receiver._on_data(pkt): the window, the stats and the file after the call,
\* and the ReceiveResult it returns
on_data(wm, stats, file, pkt) ==
    LET m == mark_received(wm, pkt.seq, pkt.payload) IN
    IF ~m.is_new THEN
        [wm |-> m.wm, stats |-> [stats EXCEPT !.dup_in = @ + 1], file |-> file,
         res |-> ReceiveResult({pkt.seq}, FALSE)]
    ELSE IF ~in_window(m.wm, pkt.seq) THEN
        [wm |-> m.wm, stats |-> [stats EXCEPT !.out_of_order_in = @ + 1],
         file |-> file,
         res |-> ReceiveResult({m.wm.expected_seq - 1}, FALSE)]
    ELSE
        LET p == pop_in_order(m.wm) IN
        [wm |-> p.wm,
         stats |-> [stats EXCEPT !.delivered = @ + Len(p.out)],
         file |-> IF p.out # << >> THEN deliver_to_file(file, p.out) ELSE file,
         res |-> ReceiveResult({p.wm.expected_seq - 1}, FALSE)]

\* handle_datagram without the single-client test: any peer is served
handle_datagram_AnyPeer(client, wm, stats, file, decoded, addr) ==
    LET counted == [stats EXCEPT !.pkts_in = @ + 1]
        bound == IF client = {} THEN {addr} ELSE client
        pkt == decode_and_verify(decoded)
    IN
    IF pkt = NoPacket THEN
        [client |-> bound, wm |-> wm,
         stats |-> [counted EXCEPT !.corrupt_in = @ + 1], file |-> file,
         res |-> ReceiveResult({}, FALSE)]
    ELSE IF pkt.type = "DATA" THEN
        [client |-> bound] @@ on_data(wm, counted, file, pkt)
    ELSE IF pkt.type = "FIN" THEN
        [client |-> bound, wm |-> wm, stats |-> counted, file |-> file,
         res |-> ReceiveResult({}, TRUE)]
    ELSE
        [client |-> bound, wm |-> wm, stats |-> counted, file |-> file,
         res |-> ReceiveResult({}, FALSE)]

\* Receiver.handle_datagram(data, addr), decoded being decode_packet(data):
\* state.client (None is the empty set), the window, the stats and the file
\* after the call, and the ReceiveResult it returns
handle_datagram(client, wm, stats, file, decoded, addr) ==
    LET counted == [stats EXCEPT !.pkts_in = @ + 1]
        bound == IF client = {} THEN {addr} ELSE client
        pkt == decode_and_verify(decoded)
    IN
    IF client # {} /\ client # {addr} THEN
        [client |-> client, wm |-> wm, stats |-> counted, file |-> file,
         res |-> ReceiveResult({}, FALSE)]
    ELSE IF pkt = NoPacket THEN
        [client |-> bound, wm |-> wm,
         stats |-> [counted EXCEPT !.corrupt_in = @ + 1], file |-> file,
         res |-> ReceiveResult({}, FALSE)]
    ELSE IF pkt.type = "DATA" THEN
        [client |-> bound] @@ on_data(wm, counted, file, pkt)
    ELSE IF pkt.type = "FIN" THEN
        [client |-> bound, wm |-> wm, stats |-> counted, file |-> file,
         res |-> ReceiveResult({}, TRUE)]
    ELSE
        [client |-> bound, wm |-> wm, stats |-> counted, file |-> file,
         res |-> ReceiveResult({}, FALSE)]

\* Sender.send_ack(addr, ack_seq): what is given to sock.sendto, in a list
send_ack(addr, ack_seq) ==
    IF ack_seq < 0 THEN << >>
    ELSE <<[frame |-> build_ack(ack_seq), addr |-> addr]>>

\* the stats after Sender.send_ack(addr, ack_seq)
send_ack_stats(stats, ack_seq) ==
    IF ack_seq < 0 THEN stats
    ELSE [stats EXCEPT !.pkts_out = @ + 1, !.acks_out = @ + 1]

(* ------------------------------------------------------------------ *)
(* server/retransmit_queue.py: RetransmitQueue                         *)
(* ------------------------------------------------------------------ *)
\* self.rto = rto_ms / 1000.0 with cfg.rto_ms = 200, in fifths of a second, the
\* unit of the clock
rto == 1

\* cfg.max_retries: a small value, so that a record reaches it
max_retries == 2

\* _Item(deadline, key, payload, addr): retries defaults to 0
Item(deadline, key, payload, addr) ==
    [deadline |-> deadline, key |-> key, payload |-> payload, addr |-> addr,
     retries |-> 0]

\* The heap and the dict hold references to _Item objects, and tick changes an
\* object while both hold it.  objs is the list of the objects ever built; an
\* object is named by its position in it.

\* a < b for two _Item objects: order=True compares the fields declared with
\* compare, which is deadline alone
item_less(objs, a, b) == objs[a].deadline < objs[b].deadline

\* heapq._siftdown(heap, startpos, pos), newitem being heap[pos]; positions
\* count from 0 as in the list
RECURSIVE siftdown(_, _, _, _, _)
siftdown(objs, heap, startpos, pos, newitem) ==
    LET parentpos == (pos - 1) \div 2 IN
    IF pos > startpos /\ item_less(objs, newitem, heap[parentpos + 1]) THEN
        siftdown(objs, [heap EXCEPT ![pos + 1] = heap[parentpos + 1]], startpos,
                 parentpos, newitem)
    ELSE [heap EXCEPT ![pos + 1] = newitem]

\* heapq.heappush(heap, item)
heappush(objs, heap, item) ==
    siftdown(objs, Append(heap, item), 0, Len(heap), item)

\* the while loop of heapq._siftup(heap, pos): the smaller child moves up until
\* a leaf is reached
RECURSIVE siftup_loop(_, _, _, _)
siftup_loop(objs, heap, pos, endpos) ==
    LET childpos == 2 * pos + 1
        rightpos == childpos + 1
        smaller == IF rightpos < endpos
                      /\ ~item_less(objs, heap[childpos + 1], heap[rightpos + 1])
                   THEN rightpos ELSE childpos
    IN
    IF childpos < endpos THEN
        siftup_loop(objs, [heap EXCEPT ![pos + 1] = heap[smaller + 1]], smaller,
                    endpos)
    ELSE [heap |-> heap, pos |-> pos]

\* heapq._siftup(heap, pos)
siftup(objs, heap, pos) ==
    LET leaf == siftup_loop(objs, heap, pos, Len(heap)) IN
    siftdown(objs, leaf.heap, pos, leaf.pos, heap[pos + 1])

\* heapq.heappop(heap): the item returned and the list after the call
heappop(objs, heap) ==
    LET lastelt == heap[Len(heap)]
        rest == SubSeq(heap, 1, Len(heap) - 1)
    IN
    IF rest = << >> THEN [item |-> lastelt, heap |-> rest]
    ELSE [item |-> rest[1], heap |-> siftup(objs, [rest EXCEPT ![1] = lastelt], 0)]

\* ack that leaves the record in the dict
ack_Keep(items, key) == items

\* RetransmitQueue.ack(key): self.items.pop(key, None)
ack(items, key) == BufferPop(items, key)

(* ------------------------------------------------------------------ *)
(* common/stats.py: TransferStats                                      *)
(* ------------------------------------------------------------------ *)
\* TransferStats(): the fields __init__ sets, besides the lock
TransferStats ==
    [packets_sent |-> 0, packets_received |-> 0, packets_retransmitted |-> 0,
     acks_sent |-> 0, acks_received |-> 0, bytes_sent |-> 0, bytes_received |-> 0,
     start_time |-> None, end_time |-> None]

\* One method call is a list of steps.  "acquire" and "release" are the entry
\* and the exit of `with self.lock`; `self.f += n` is a "load" of f and a
\* "store" of the loaded value plus n; `self.f = time.time()` is "now"; a
\* reader's access to f is "read" (the accesses to one field within one `with`
\* are taken as one); "branch" is get_throughput's `if duration == 0: return`.
Acquire == [kind |-> "acquire"]
Release == [kind |-> "release"]
Load(f) == [kind |-> "load", field |-> f]
Store(f, n) == [kind |-> "store", field |-> f, add |-> n]
Now(f) == [kind |-> "now", field |-> f]
Read(f) == [kind |-> "read", field |-> f]
Branch == [kind |-> "branch"]

record_send(packet_size) ==
    <<Acquire, Load("packets_sent"), Store("packets_sent", 1),
      Load("bytes_sent"), Store("bytes_sent", packet_size), Release>>
record_receive(packet_size) ==
    <<Acquire, Load("packets_received"), Store("packets_received", 1),
      Load("bytes_received"), Store("bytes_received", packet_size), Release>>
record_retransmit ==
    <<Acquire, Load("packets_retransmitted"), Store("packets_retransmitted", 1),
      Release>>
record_ack_sent == <<Acquire, Load("acks_sent"), Store("acks_sent", 1), Release>>
record_ack_received ==
    <<Acquire, Load("acks_received"), Store("acks_received", 1), Release>>
start_transfer == <<Acquire, Now("start_time"), Release>>
end_transfer == <<Acquire, Now("end_time"), Release>>
get_duration == <<Acquire, Read("start_time"), Read("end_time"), Release>>
get_throughput == get_duration \o <<Branch, Acquire, Read("bytes_received"), Release>>
get_retransmit_rate ==
    <<Acquire, Read("packets_sent"), Read("packets_retransmitted"), Release>>
get_report ==
    <<Acquire, Read("start_time"), Read("end_time"), Read("bytes_received"),
      Read("packets_sent"), Read("packets_retransmitted"), Read("packets_received"),
      Read("acks_sent"), Read("acks_received"), Read("bytes_sent"), Release>>

\* the lock taken although another thread holds it
lock_free_Always(lock) == TRUE

\* threading.Lock: acquire waits until no thread holds the lock
lock_free(lock) == lock = None

\* a thread outside every method of the object
NoCall ==
    [op |-> "none", steps |-> << >>, tmp |-> 0, got |-> EmptyBuffer, seen |-> {}]

\* the calls made so far: their number, per mutator the number of calls, and
\* the sums of the sizes passed to record_send and record_receive
NoCalls ==
    [calls |-> 0, record_send |-> 0, record_receive |-> 0, record_retransmit |-> 0,
     record_ack_sent |-> 0, record_ack_received |-> 0, sent_sizes |-> 0,
     received_sizes |-> 0]

(* ------------------------------------------------------------------ *)
(* State                                                               *)
(* ------------------------------------------------------------------ *)
VARIABLES
    pc,                   \* "handshake_send", "handshake_wait": in the for and in
                          \* the while loop of send_syn_request; "handshake_failed":
                          \* it returned False; "receive": in the loop of
                          \* receive_file; "returned": receive_file has returned to
                          \* main; "exit": main returned; "idle": not started
    conn_id,              \* main: conn_id
    state,                \* receive_file: state, a ClientState
    consecutive_timeouts, \* receive_file: consecutive_timeouts
    fp,                   \* the bytes written to the output file
    sent,                 \* the frames handed to send_packet, in order
    exit_status,          \* what main returned, None before
    dropped_in_run,       \* history: a datagram (not the timeout) is among the
                          \* receive attempts counted in consecutive_timeouts
    first_copy,           \* history: seq -> payload of the first chunk (a payload
                          \* of at most MAX_PAYLOAD_SIZE bytes) passed to
                          \* store_chunk with that seq
    n_data,               \* history: the packets that entered the DATA branch
    data_conn_ids         \* history: the conn_id fields of those packets

\* send_syn_request
VARIABLES
    hs_attempt,           \* the passes of `for attempt in range(retries)` begun
    hs_elapsed,           \* quarters of a second since deadline was computed
    hs_datagrams,         \* datagrams read from the socket so far
    hs_syn_ack,           \* history: a packet with flags == FLAG_SYN_ACK was read
    hs_syn_ack_conn_id    \* history: the conn_id field of that packet, None before

\* the codec taken alone: one frame encoded, damaged on the wire, decoded
VARIABLES
    codec_pc,             \* "idle": not in use; "frame": a frame to encode;
                          \* "encode_failed"; "wire": bytes to decode; "decoded";
                          \* "summed"
    codec_frame,          \* the arguments of encode_packet, or NoFrame
    raw_data,             \* the application bytes on the wire
    codec_damage,         \* history: what happened to raw_data after encoding
    codec_result,         \* what encode_packet raised or decode_packet returned
    codec_checksum        \* what compute_checksum(raw_data) returned

\* run_server: the receive path of the server
VARIABLES
    running,              \* run_server: running
    server_client,        \* state.client: None is the empty set, addr is {addr}
    wm,                   \* the WindowManager
    server_stats,         \* state.stats
    file_ctx,             \* state.file_ctx: whether fp is open, the bytes written
                          \* to it, written_chunks
    server_out,           \* what Sender gave to sock.sendto, in order
    server_last           \* history: the last datagram handle_datagram was given,
                          \* and the ReceiveResult it returned

\* a RetransmitQueue, the calls made on it and the clock
VARIABLES
    rtx_pc,               \* "idle": between two calls; "tick": in the while loop
                          \* of tick
    rtx_clock,            \* time.time(), in fifths of a second
    rtx_now,              \* tick: now, 0 outside tick
    rtx_objs,             \* the _Item objects built so far, in order
    rtx_heap,             \* self.heap: a list of objects, by position in rtx_objs
    rtx_items,            \* self.items: key -> object
    rtx_sent,             \* what tick gave to sock.sendto, in order, each with
                          \* the key of the record (history)
    rtx_acked,            \* history: the keys given to ack and not to add since
    rtx_exhausted,        \* history: the keys whose record tick removed at
                          \* max_retries
    rtx_rto,              \* self.rto, in fifths of a second
    rtx_max_retries       \* self.max_retries

\* a TransferStats object and the threads that call its methods
VARIABLES
    stats,                \* the fields of the object, besides the lock
    stats_lock,           \* self.lock: the thread that holds it, None when free
    stats_clock,          \* the latest value time.time() returned
    stats_threads,        \* per thread: the method it is in, the steps left of
                          \* the call, the value loaded for +=, the values read
                          \* so far, and (history) the value stats_version had at
                          \* each read
    stats_version,        \* history: the assignments made to fields so far
    stats_made            \* history: the calls made so far, a record as NoCalls

\* send_packet and receive_packet on datagram bytes
VARIABLES
    raw_pc,               \* "idle": not in use; "call": send_packet is about to
                          \* be called; "send_failed"; "wire": a datagram is in
                          \* the socket; "received": receive_packet has returned
                          \* or raised
    raw_call,             \* the frame and the arguments of send_packet, or NoFrame
    raw_wire,             \* the bytes given to sock.sendto or read by recvfrom
    raw_expected_port,    \* the expected_port given to receive_packet, 0 before
    raw_result            \* what send_packet raised, or what receive_packet
                          \* returned or raised

handshake_vars == <<hs_attempt, hs_elapsed, hs_datagrams, hs_syn_ack,
                    hs_syn_ack_conn_id>>
client_vars == <<pc, conn_id, state, consecutive_timeouts, fp, sent, exit_status,
                 dropped_in_run, first_copy, n_data, data_conn_ids, handshake_vars>>
codec_vars == <<codec_pc, codec_frame, raw_data, codec_damage, codec_result,
                codec_checksum>>
server_vars == <<running, server_client, wm, server_stats, file_ctx, server_out,
                 server_last>>

rtx_vars == <<rtx_pc, rtx_clock, rtx_now, rtx_objs, rtx_heap, rtx_items, rtx_sent,
              rtx_acked, rtx_exhausted, rtx_rto, rtx_max_retries>>

stats_vars == <<stats, stats_lock, stats_clock, stats_threads, stats_version,
                stats_made>>

raw_vars == <<raw_pc, raw_call, raw_wire, raw_expected_port, raw_result>>

\* the variables neither the client nor the codec touches
remaining_vars == <<server_vars, rtx_vars, stats_vars, raw_vars>>
vars == <<client_vars, codec_vars, remaining_vars>>

\* the variables receive_file and main do not touch
outside_receive_file == <<codec_vars, handshake_vars, remaining_vars>>

\* the variables the receive path of the server does not touch: the queue is
\* never added to by run_server
outside_server == <<client_vars, codec_vars, rtx_vars, stats_vars, raw_vars>>

\* the variables the RetransmitQueue does not touch
outside_rtx == <<client_vars, codec_vars, server_vars, stats_vars, raw_vars>>

\* the variables the TransferStats object does not touch
outside_stats == <<client_vars, codec_vars, server_vars, rtx_vars, raw_vars>>

\* the variables send_packet and receive_packet do not touch
outside_raw == <<client_vars, codec_vars, server_vars, rtx_vars, stats_vars>>

\* the variables of receive_file, which send_syn_request does not touch
receive_file_vars == <<state, consecutive_timeouts, fp, dropped_in_run, first_copy,
                       n_data, data_conn_ids>>

\* the variables send_syn_request and main around it do not touch
outside_handshake == <<receive_file_vars, codec_vars, remaining_vars>>

\* send_syn_request is not running
HandshakeIdle ==
    /\ hs_attempt = 0
    /\ hs_elapsed = 0
    /\ hs_datagrams = 0
    /\ hs_syn_ack = FALSE
    /\ hs_syn_ack_conn_id = None

\* the codec is not in use
CodecIdle ==
    /\ codec_pc = "idle"
    /\ codec_frame = NoFrame
    /\ raw_data = << >>
    /\ codec_damage = "none"
    /\ codec_result = NoPacket
    /\ codec_checksum = None

\* the client is not running
ClientIdle ==
    /\ pc = "idle"
    /\ conn_id = 0
    /\ state = ClientState
    /\ consecutive_timeouts = 0
    /\ fp = << >>
    /\ sent = << >>
    /\ exit_status = None
    /\ dropped_in_run = FALSE
    /\ first_copy = EmptyBuffer
    /\ n_data = 0
    /\ data_conn_ids = {}
    /\ HandshakeIdle

\* run_server is not running
ServerIdle ==
    /\ running = FALSE
    /\ server_client = {}
    /\ wm = WindowManager
    /\ server_stats = ServerStats
    /\ file_ctx = FileReceiveContext
    /\ server_out = << >>
    /\ server_last = NoPacket

\* RetransmitQueue(sock, cfg.rto_ms, cfg.max_retries): nothing added
RtxIdle ==
    /\ rtx_pc = "idle"
    /\ rtx_clock = 0
    /\ rtx_now = 0
    /\ rtx_objs = << >>
    /\ rtx_heap = << >>
    /\ rtx_items = EmptyBuffer
    /\ rtx_sent = << >>
    /\ rtx_acked = {}
    /\ rtx_exhausted = {}
    /\ rtx_rto = rto
    /\ rtx_max_retries = max_retries

\* the threads that share the object: the receive path and the retransmit path
StatThreads == {1, 2}

\* TransferStats(): no method called yet
StatsIdle ==
    /\ stats = TransferStats
    /\ stats_lock = None
    /\ stats_clock = 0
    /\ stats_threads = [t \in StatThreads |-> NoCall]
    /\ stats_version = 0
    /\ stats_made = NoCalls

\* no datagram is built or parsed
RawIdle ==
    /\ raw_pc = "idle"
    /\ raw_call = NoFrame
    /\ raw_wire = NoDatagram
    /\ raw_expected_port = 0
    /\ raw_result = NoResult

\* nothing but the client and the codec is in use
RemainingIdle == ServerIdle /\ RtxIdle /\ StatsIdle /\ RawIdle

\* main has finished the handshake and calls receive_file, which builds its
\* state and opens the output file
Init ==
    /\ pc = "receive"
    /\ conn_id \in ClientConnIds
    /\ state = ClientState
    /\ consecutive_timeouts = 0
    /\ fp = << >>
    /\ sent = << >>
    /\ exit_status = None
    /\ dropped_in_run = FALSE
    /\ first_copy = EmptyBuffer
    /\ n_data = 0
    /\ data_conn_ids = {}
    /\ HandshakeIdle
    /\ CodecIdle
    /\ RemainingIdle

(* ------------------------------------------------------------------ *)
(* client/receiver.py: receive_file, one loop iteration per action     *)
(* ------------------------------------------------------------------ *)
\* res is None: count it, and leave the loop at max_consecutive_timeouts
RecvNone ==
    /\ pc = "receive"
    /\ \E a \in Arrivals :
        /\ receive_packet(a, CLIENT_PORT) = NoResult
        /\ consecutive_timeouts' = consecutive_timeouts + 1
        /\ dropped_in_run' = (dropped_in_run \/ a.kind = "datagram")
        /\ pc' = IF consecutive_timeouts' >= max_consecutive_timeouts
                 THEN "returned" ELSE "receive"
    /\ UNCHANGED <<conn_id, state, fp, sent, exit_status, first_copy, n_data,
                   data_conn_ids, outside_receive_file>>

\* the arrivals for which receive_packet returns a tuple, by what the loop does
\* with the packet of the tuple
InvalidArrivals ==
    {a \in Arrivals : /\ receive_packet(a, CLIENT_PORT) # NoResult
                      /\ receive_packet(a, CLIENT_PORT).packet = NoPacket}

PacketArrivals ==
    {a \in Arrivals : /\ receive_packet(a, CLIENT_PORT) # NoResult
                      /\ receive_packet(a, CLIENT_PORT).packet # NoPacket}

\* packet is None: corrupted or invalid
RecvInvalid ==
    /\ pc = "receive"
    /\ state.p_total < MaxFrames
    /\ InvalidArrivals # {}
    /\ consecutive_timeouts' = 0
    /\ dropped_in_run' = FALSE
    /\ state' = [state EXCEPT !.p_total = @ + 1, !.p_invalid = @ + 1]
    /\ UNCHANGED <<pc, conn_id, fp, sent, exit_status, first_copy, n_data,
                   data_conn_ids, outside_receive_file>>

\* a packet of another connection counted as invalid and acknowledged all the same
RecvForeign_Acked ==
    /\ pc = "receive"
    /\ state.p_total < MaxFrames
    /\ {a \in PacketArrivals : a.decoded.conn_id # conn_id} # {}
    /\ consecutive_timeouts' = 0
    /\ dropped_in_run' = FALSE
    /\ state' = [state EXCEPT !.p_total = @ + 1, !.p_invalid = @ + 1]
    /\ sent' = Append(sent, Frame(0, state.expected_seq, FLAG_ACK, << >>, conn_id))
    /\ UNCHANGED <<pc, conn_id, fp, exit_status, first_copy, n_data, data_conn_ids,
                   outside_receive_file>>

\* packet["conn_id"] != conn_id
RecvForeign ==
    /\ pc = "receive"
    /\ state.p_total < MaxFrames
    /\ {a \in PacketArrivals : a.decoded.conn_id # conn_id} # {}
    /\ consecutive_timeouts' = 0
    /\ dropped_in_run' = FALSE
    /\ state' = [state EXCEPT !.p_total = @ + 1, !.p_invalid = @ + 1]
    /\ UNCHANGED <<pc, conn_id, fp, sent, exit_status, first_copy, n_data,
                   data_conn_ids, outside_receive_file>>

\* a valid packet without the DATA bit: counted, nothing else
RecvOther ==
    /\ pc = "receive"
    /\ state.p_total < MaxFrames
    /\ {a \in PacketArrivals : /\ a.decoded.conn_id = conn_id
                               /\ BitAnd(a.decoded.flags, FLAG_DATA) = 0} # {}
    /\ consecutive_timeouts' = 0
    /\ dropped_in_run' = FALSE
    /\ state' = [state EXCEPT !.p_total = @ + 1, !.p_valid = @ + 1]
    /\ UNCHANGED <<pc, conn_id, fp, sent, exit_status, first_copy, n_data,
                   data_conn_ids, outside_receive_file>>

\* an ACK with seq_num and ack_num exchanged
AckFrame_Swapped(st, packet, cid) == Frame(st.expected_seq, 0, FLAG_ACK, << >>, cid)

\* an ACK that acknowledges the packet just received, not the contiguous prefix
AckFrame_OwnSeq(st, packet, cid) == Frame(0, packet.seq_num + 1, FLAG_ACK, << >>, cid)

\* the ACK built in the DATA branch after packet has been stored and drained
AckFrame(st, packet, cid) == Frame(0, st.expected_seq, FLAG_ACK, << >>, cid)

\* the FIN_ACK built when all chunks are written
FinAckFrame(st, packet, cid) == Frame(0, st.expected_seq, FLAG_FIN_ACK, << >>, cid)

\* the termination test off by one: true once expected_seq has reached fin_seq
Finished_Early(st) == st.fin_seq # None /\ st.expected_seq >= st.fin_seq

\* state.fin_seq is not None and state.expected_seq == state.fin_seq + 1
Finished(st) == st.fin_seq # None /\ st.expected_seq = st.fin_seq + 1

\* the FIN|DATA test never true: fin_seq stays None
MarkFin_Never(st, packet) == st

\* if (flags & FLAG_FIN_DATA) == FLAG_FIN_DATA: state.fin_seq = seq_num
MarkFin(st, packet) ==
    IF BitAnd(packet.flags, FLAG_FIN_DATA) = FLAG_FIN_DATA
    THEN [st EXCEPT !.fin_seq = packet.seq_num]
    ELSE st

\* the DATA branch for one packet: store_chunk, fin_seq, write_chunk, the ACK,
\* and the FIN_ACK copies and the break when all chunks are written
DataStep(packet) ==
    LET counted == [state EXCEPT !.p_total = @ + 1, !.p_valid = @ + 1]
        stored == store_chunk(counted, packet.seq_num, packet.payload)
        written == write_chunk(MarkFin(stored, packet), fp)
        st == written.state
        ack_packet == AckFrame(st, packet, conn_id)
        fin_ack == FinAckFrame(st, packet, conn_id)
    IN
    /\ state' = st
    /\ fp' = written.file
    /\ sent' = IF Finished(st)
               THEN sent \o <<ack_packet>> \o [i \in 1..FIN_ACK_COPIES |-> fin_ack]
               ELSE Append(sent, ack_packet)
    /\ pc' = IF Finished(st) THEN "returned" ELSE "receive"

RecvData ==
    /\ pc = "receive"
    /\ state.p_total < MaxFrames
    /\ \E a \in PacketArrivals :
        LET packet == receive_packet(a, CLIENT_PORT).packet IN
        /\ packet.conn_id = conn_id
        /\ BitAnd(packet.flags, FLAG_DATA) # 0
        /\ DataStep(packet)
        /\ first_copy' =
              IF Len(packet.payload) <= MAX_PAYLOAD_SIZE
                 /\ packet.seq_num \notin DOMAIN first_copy
              THEN BufferPut(first_copy, packet.seq_num, packet.payload)
              ELSE first_copy
        /\ data_conn_ids' = data_conn_ids \cup {packet.conn_id}
    /\ n_data' = n_data + 1
    /\ consecutive_timeouts' = 0
    /\ dropped_in_run' = FALSE
    /\ UNCHANGED <<conn_id, exit_status, outside_receive_file>>

(* ------------------------------------------------------------------ *)
(* client/srtf_udp_client.py: main after receive_file has returned     *)
(* ------------------------------------------------------------------ *)
MainReport ==
    /\ pc = "returned"
    /\ exit_status' = 0
    /\ pc' = "exit"
    /\ UNCHANGED <<conn_id, state, consecutive_timeouts, fp, sent, dropped_in_run,
                   first_copy, n_data, data_conn_ids, outside_receive_file>>

Next ==
    \/ RecvNone
    \/ RecvInvalid
    \/ RecvForeign
    \/ RecvOther
    \/ RecvData
    \/ MainReport

Spec == Init /\ [][Next]_vars

(* ------------------------------------------------------------------ *)
(* client/request_handler.py: send_syn_request, and main around it     *)
(* ------------------------------------------------------------------ *)
\* filename.encode("utf-8")
filename == <<102>>

\* what arrives while the client waits for SYN_ACK
HandshakePackets ==
    [seq_num : {0}, ack_num : {0}, flags : {FLAG_SYN_ACK, FLAG_ACK, FLAG_DATA},
     conn_id : ConnIds, payload : {<< >>}]
HandshakeArrivals ==
    {Timeout}
    \cup [kind : {"datagram"}, too_short : {TRUE}, dst_port : {CLIENT_PORT},
          decoded : {NoPacket}]
    \cup [kind : {"datagram"}, too_short : {FALSE}, dst_port : {SERVER_PORT},
          decoded : {NoPacket}]
    \cup [kind : {"datagram"}, too_short : {FALSE}, dst_port : {CLIENT_PORT},
          decoded : {NoPacket} \cup HandshakePackets]

\* main draws conn_id and calls send_syn_request
HandshakeInit ==
    /\ pc = "handshake_send"
    /\ conn_id \in ClientConnIds
    /\ state = ClientState
    /\ consecutive_timeouts = 0
    /\ fp = << >>
    /\ sent = << >>
    /\ exit_status = None
    /\ dropped_in_run = FALSE
    /\ first_copy = EmptyBuffer
    /\ n_data = 0
    /\ data_conn_ids = {}
    /\ HandshakeIdle
    /\ CodecIdle
    /\ RemainingIdle

\* one pass of the for loop up to the while: send SYN, compute deadline
HsSendSyn ==
    /\ pc = "handshake_send"
    /\ hs_attempt < retries
    /\ sent' = Append(sent, Frame(0, 0, FLAG_SYN, filename, conn_id))
    /\ hs_attempt' = hs_attempt + 1
    /\ hs_elapsed' = 0
    /\ pc' = "handshake_wait"
    /\ UNCHANGED <<conn_id, exit_status, hs_datagrams, hs_syn_ack, hs_syn_ack_conn_id,
                   outside_handshake>>

\* the time one receive_packet call takes: the whole timeout when nothing
\* arrives, at most that much when a datagram is read
RecvDurations(a) ==
    IF a.kind = "timeout" THEN {syn_recv_timeout} ELSE 0..syn_recv_timeout

\* one more datagram may be read from the socket
MayRead(a) == a.kind = "timeout" \/ hs_datagrams < MaxHandshakeDatagrams

\* the while loop that never ends the wait: time.time() < deadline taken as true
HsWaitExpired_Never ==
    /\ pc = "handshake_wait"
    /\ hs_elapsed >= max_wait_time
    /\ pc' = "handshake_send"
    /\ hs_attempt' = IF hs_attempt < retries THEN hs_attempt ELSE retries - 1
    /\ UNCHANGED <<conn_id, sent, exit_status, hs_elapsed, hs_datagrams,
                   hs_syn_ack, hs_syn_ack_conn_id, outside_handshake>>

\* time.time() < deadline is false: the next pass of the for loop, or return
\* False after the last
HsWaitExpired ==
    /\ pc = "handshake_wait"
    /\ hs_elapsed >= max_wait_time
    /\ pc' = IF hs_attempt < retries THEN "handshake_send" ELSE "handshake_failed"
    /\ UNCHANGED <<conn_id, sent, exit_status, hs_attempt, hs_elapsed, hs_datagrams,
                   hs_syn_ack, hs_syn_ack_conn_id, outside_handshake>>

\* res is None, packet is None, or packet["flags"] != FLAG_SYN_ACK: back to the
\* test of the while loop
HsRecvContinue ==
    /\ pc = "handshake_wait"
    /\ hs_elapsed < max_wait_time
    /\ \E a \in HandshakeArrivals :
        /\ MayRead(a)
        /\ \/ receive_packet(a, CLIENT_PORT) = NoResult
           \/ /\ receive_packet(a, CLIENT_PORT) # NoResult
              /\ receive_packet(a, CLIENT_PORT).packet = NoPacket
           \/ /\ receive_packet(a, CLIENT_PORT) # NoResult
              /\ receive_packet(a, CLIENT_PORT).packet # NoPacket
              /\ receive_packet(a, CLIENT_PORT).packet.flags # FLAG_SYN_ACK
        /\ \E d \in RecvDurations(a) : hs_elapsed' = hs_elapsed + d
        /\ hs_datagrams' = IF a.kind = "timeout" THEN hs_datagrams
                           ELSE hs_datagrams + 1
    /\ UNCHANGED <<pc, conn_id, sent, exit_status, hs_attempt, hs_syn_ack,
                   hs_syn_ack_conn_id, outside_handshake>>

\* packet["flags"] == FLAG_SYN_ACK: return True, and main goes on to receive_file
HsRecvSynAck ==
    /\ pc = "handshake_wait"
    /\ hs_elapsed < max_wait_time
    /\ \E a \in HandshakeArrivals :
        /\ MayRead(a)
        /\ receive_packet(a, CLIENT_PORT) # NoResult
        /\ receive_packet(a, CLIENT_PORT).packet # NoPacket
        /\ receive_packet(a, CLIENT_PORT).packet.flags = FLAG_SYN_ACK
        /\ \E d \in RecvDurations(a) : hs_elapsed' = hs_elapsed + d
        /\ hs_syn_ack_conn_id' = receive_packet(a, CLIENT_PORT).packet.conn_id
    /\ hs_datagrams' = hs_datagrams + 1
    /\ hs_syn_ack' = TRUE
    /\ pc' = "receive"
    /\ UNCHANGED <<conn_id, sent, exit_status, hs_attempt, outside_handshake>>

\* main: if not handshake_status: return 1
MainHandshakeFailed ==
    /\ pc = "handshake_failed"
    /\ exit_status' = 1
    /\ pc' = "exit"
    /\ UNCHANGED <<conn_id, sent, handshake_vars, outside_handshake>>

HandshakeNext ==
    \/ HsSendSyn
    \/ HsWaitExpired
    \/ HsRecvContinue
    \/ HsRecvSynAck
    \/ MainHandshakeFailed

\* the client is one thread that always takes its next step, and each arrival
\* it waits for ends by the timeout at the latest
HandshakeSpec ==
    HandshakeInit /\ [][HandshakeNext]_vars /\ WF_vars(HandshakeNext)

(* ------------------------------------------------------------------ *)
(* common/packet.py, common/checksum.py taken alone                    *)
(* ------------------------------------------------------------------ *)
\* a frame to encode, or application bytes shorter than a header to decode
CodecInit ==
    /\ ClientIdle
    /\ RemainingIdle
    /\ codec_damage = "none"
    /\ codec_result = NoPacket
    /\ codec_checksum = None
    /\ \/ /\ codec_pc = "frame"
          /\ codec_frame \in CodecFrames
          /\ raw_data = << >>
       \/ /\ codec_pc = "wire"
          /\ codec_frame = NoFrame
          /\ raw_data \in ShortInputs

\* encode_packet(seq_num, ack_num, flags, payload, conn_id)
CodecEncode ==
    /\ codec_pc = "frame"
    /\ LET r == encode_packet(codec_frame.seq_num, codec_frame.ack_num,
                              codec_frame.flags, codec_frame.payload,
                              codec_frame.conn_id)
       IN IF "bytes" \in DOMAIN r
          THEN /\ raw_data' = r.bytes
               /\ codec_pc' = "wire"
               /\ UNCHANGED codec_result
          ELSE /\ codec_result' = r
               /\ codec_pc' = "encode_failed"
               /\ UNCHANGED raw_data
    /\ UNCHANGED <<codec_frame, codec_damage, codec_checksum, client_vars,
                   remaining_vars>>

\* bit `bit` of byte b inverted
flip_bit(b, bit) ==
    IF (b \div (2 ^ bit)) % 2 = 1 THEN b - 2 ^ bit ELSE b + 2 ^ bit

\* the network inverts one bit of one of the 15 header bytes
CodecFlipHeaderBit ==
    /\ codec_pc = "wire"
    /\ codec_frame # NoFrame
    /\ codec_damage = "none"
    /\ \E idx \in 1..CUSTOM_HEADER_SIZE, bit \in 0..7 :
          raw_data' = [raw_data EXCEPT ![idx] = flip_bit(@, bit)]
    /\ codec_damage' = "flip"
    /\ UNCHANGED <<codec_pc, codec_frame, codec_result, codec_checksum, client_vars,
                   remaining_vars>>

\* the datagram arrives cut to fewer than 15 application bytes
CodecTruncate ==
    /\ codec_pc = "wire"
    /\ codec_frame # NoFrame
    /\ codec_damage = "none"
    /\ \E k \in {0, CUSTOM_HEADER_SIZE - 1} : raw_data' = SubSeq(raw_data, 1, k)
    /\ codec_damage' = "truncate"
    /\ UNCHANGED <<codec_pc, codec_frame, codec_result, codec_checksum, client_vars,
                   remaining_vars>>

\* the datagram arrives with one byte more than payload_length says
CodecExtend ==
    /\ codec_pc = "wire"
    /\ codec_frame # NoFrame
    /\ codec_damage = "none"
    /\ raw_data' = Append(raw_data, 0)
    /\ codec_damage' = "extend"
    /\ UNCHANGED <<codec_pc, codec_frame, codec_result, codec_checksum, client_vars,
                   remaining_vars>>

\* decode_packet(raw_data)
CodecDecode ==
    /\ codec_pc = "wire"
    /\ codec_result' = decode_packet(raw_data)
    /\ codec_pc' = "decoded"
    /\ UNCHANGED <<codec_frame, raw_data, codec_damage, codec_checksum, client_vars,
                   remaining_vars>>

\* compute_checksum(raw_data)
CodecChecksum ==
    /\ codec_pc = "wire"
    /\ codec_checksum' = compute_checksum(raw_data)
    /\ codec_pc' = "summed"
    /\ UNCHANGED <<codec_frame, raw_data, codec_damage, codec_result, client_vars,
                   remaining_vars>>

CodecNext ==
    \/ CodecEncode
    \/ CodecFlipHeaderBit
    \/ CodecTruncate
    \/ CodecExtend
    \/ CodecDecode
    \/ CodecChecksum

CodecSpec == CodecInit /\ [][CodecNext]_vars

(* ------------------------------------------------------------------ *)
(* server/srtf_udp_server.py: run_server, one loop iteration per action *)
(* ------------------------------------------------------------------ *)
\* the datagrams that are handled, the addresses they come from, the chunk
\* indices in and beyond a window of window_size, the payloads
MaxServerDatagrams == 3
ClientAddrs == {<<"10.0.0.2", 5006>>, <<"10.0.0.3", 5006>>}
ServerSeqs == 0 .. (window_size + 1)
ServerPayloads == {<<1>>, <<2>>}

\* what decode_packet returns for the frames a client sends: the SYN with the
\* filename, chunks with and without FIN, an ACK
ServerPackets ==
    [seq_num : {0}, ack_num : {0}, flags : {FLAG_SYN}, conn_id : ConnIds,
     payload : {filename}]
    \cup [seq_num : ServerSeqs, ack_num : {0}, flags : {FLAG_DATA, FLAG_FIN_DATA},
          conn_id : ClientConnIds, payload : ServerPayloads]
    \cup [seq_num : {0}, ack_num : {1}, flags : {FLAG_ACK}, conn_id : ClientConnIds,
          payload : {<< >>}]

\* run_server up to the loop: the state, the window, the socket
ServerInit ==
    /\ running = TRUE
    /\ server_client = {}
    /\ wm = WindowManager
    /\ server_stats = ServerStats
    /\ file_ctx = FileReceiveContext
    /\ server_out = << >>
    /\ server_last = NoPacket
    /\ RtxIdle
    /\ StatsIdle
    /\ RawIdle
    /\ ClientIdle
    /\ CodecIdle

\* one iteration in which select reports the socket readable: recvfrom,
\* handle_datagram, send_ack when there is an ack_seq, running = False on
\* close.  rtx.tick() ends the iteration; run_server never calls rtx.add, so
\* the queue is empty and tick returns at once.
ServerRecv ==
    /\ running
    /\ server_stats.pkts_in < MaxServerDatagrams
    /\ \E addr \in ClientAddrs, decoded \in {NoPacket} \cup ServerPackets :
        LET h == handle_datagram(server_client, wm, server_stats, file_ctx,
                                 decoded, addr)
            acked == h.res.ack_seq # {}
            ack_seq == CHOOSE a \in h.res.ack_seq : TRUE
        IN
        /\ server_client' = h.client
        /\ wm' = h.wm
        /\ file_ctx' = h.file
        /\ server_stats' = IF acked THEN send_ack_stats(h.stats, ack_seq)
                           ELSE h.stats
        /\ server_out' = IF acked THEN server_out \o send_ack(addr, ack_seq)
                         ELSE server_out
        /\ running' = ~h.res.close
        /\ server_last' = [decoded |-> decoded, addr |-> addr, res |-> h.res]
    /\ UNCHANGED outside_server

ServerNext == ServerRecv

ServerSpec == ServerInit /\ [][ServerNext]_vars

(* ------------------------------------------------------------------ *)
(* server/retransmit_queue.py: add, ack and tick called in any order,   *)
(* tick one pass of its while loop per action                          *)
(* ------------------------------------------------------------------ *)
\* the add calls made, and how far the clock runs: past the deadline at which
\* a record that was retransmitted max_retries times is due again
MaxAdds == 3
MaxClock == rto * (max_retries + 2)

\* the arguments of add: the keys of window_size + 1 chunks, the peer; the
\* n-th add call is given the payload <<n>>
RtxKeyList == <<"0", "1", "2">>
RtxKeys == {RtxKeyList[i] : i \in DOMAIN RtxKeyList}
RtxAddr == <<"10.0.0.2", 5006>>

\* run_server has built the queue and is in its loop
RetransmitInit ==
    /\ running = TRUE
    /\ server_client = {}
    /\ wm = WindowManager
    /\ server_stats = ServerStats
    /\ file_ctx = FileReceiveContext
    /\ server_out = << >>
    /\ server_last = NoPacket
    /\ RtxIdle
    /\ StatsIdle
    /\ RawIdle
    /\ ClientIdle
    /\ CodecIdle

\* time passes between two calls
RtxClock ==
    /\ rtx_pc = "idle"
    /\ rtx_clock < MaxClock
    /\ rtx_clock' = rtx_clock + 1
    /\ UNCHANGED <<rtx_pc, rtx_now, rtx_objs, rtx_heap, rtx_items, rtx_sent,
                   rtx_acked, rtx_exhausted,
                   rtx_rto, rtx_max_retries, outside_rtx>>

\* the keys add was given so far
added_keys == {rtx_objs[i].key : i \in DOMAIN rtx_objs}

\* the keys the next add may be given: one given before, or the first of
\* RtxKeyList not given yet (the queue treats all keys alike, so the order in
\* which new keys appear is fixed)
next_keys ==
    {RtxKeyList[i] : i \in {j \in DOMAIN RtxKeyList : j <= Cardinality(added_keys) + 1}}

\* add(key, payload, addr)
RtxAdd ==
    /\ rtx_pc = "idle"
    /\ Len(rtx_objs) < MaxAdds
    /\ \E key \in next_keys :
        LET item == Len(rtx_objs) + 1
            objs == Append(rtx_objs, Item(rtx_clock + rtx_rto, key, <<item>>, RtxAddr))
        IN
        /\ rtx_objs' = objs
        /\ rtx_items' = BufferPut(rtx_items, key, item)
        /\ rtx_heap' = heappush(objs, rtx_heap, item)
        /\ rtx_acked' = rtx_acked \ {key}
    /\ UNCHANGED <<rtx_pc, rtx_clock, rtx_now, rtx_sent, rtx_exhausted,
                   rtx_rto, rtx_max_retries, outside_rtx>>

\* ack(key), for a key that was added at some time: for any other key
\* self.items.pop(key, None) changes nothing
RtxAck ==
    /\ rtx_pc = "idle"
    /\ \E key \in added_keys :
        /\ rtx_items' = ack(rtx_items, key)
        /\ rtx_acked' = rtx_acked \cup {key}
    /\ UNCHANGED <<rtx_pc, rtx_clock, rtx_now, rtx_objs, rtx_heap, rtx_sent,
                   rtx_exhausted,
                   rtx_rto, rtx_max_retries, outside_rtx>>

\* run_server calls tick() at the end of a loop iteration: now = time.time()
RtxTick ==
    /\ running
    /\ rtx_pc = "idle"
    /\ rtx_pc' = "tick"
    /\ rtx_now' = rtx_clock
    /\ UNCHANGED <<rtx_clock, rtx_objs, rtx_heap, rtx_items, rtx_sent, rtx_acked,
                   rtx_exhausted,
                   rtx_rto, rtx_max_retries, outside_rtx>>

\* while self.heap and self.heap[0].deadline <= now
tick_due ==
    /\ rtx_heap # << >>
    /\ rtx_objs[rtx_heap[1]].deadline <= rtx_now

\* item = heapq.heappop(self.heap), and the key of item
tick_popped == heappop(rtx_objs, rtx_heap)
tick_key == rtx_objs[tick_popped.item].key

\* the acknowledged entry is looked at and left at the top of the heap
RtxTickSkip_Peek ==
    /\ rtx_pc = "tick"
    /\ tick_due
    /\ tick_key \notin DOMAIN rtx_items
    /\ UNCHANGED vars

\* cur is None: continue
RtxTickSkip ==
    /\ rtx_pc = "tick"
    /\ tick_due
    /\ tick_key \notin DOMAIN rtx_items
    /\ rtx_heap' = tick_popped.heap
    /\ UNCHANGED <<rtx_pc, rtx_clock, rtx_now, rtx_objs, rtx_items, rtx_sent,
                   rtx_acked, rtx_exhausted,
                   rtx_rto, rtx_max_retries, outside_rtx>>

\* cur.retries >= self.max_retries: the record is removed, continue
RtxTickDrop ==
    /\ rtx_pc = "tick"
    /\ tick_due
    /\ tick_key \in DOMAIN rtx_items
    /\ rtx_objs[rtx_items[tick_key]].retries >= rtx_max_retries
    /\ rtx_heap' = tick_popped.heap
    /\ rtx_items' = BufferPop(rtx_items, tick_key)
    /\ rtx_exhausted' = rtx_exhausted \cup {tick_key}
    /\ UNCHANGED <<rtx_pc, rtx_clock, rtx_now, rtx_objs, rtx_sent, rtx_acked,
                   rtx_rto, rtx_max_retries, outside_rtx>>

\* retransmit: sendto(cur.payload, cur.addr), cur.retries += 1,
\* cur.deadline = now + self.rto, heappush(self.heap, cur)
RtxTickRetransmit ==
    /\ rtx_pc = "tick"
    /\ tick_due
    /\ tick_key \in DOMAIN rtx_items
    /\ rtx_objs[rtx_items[tick_key]].retries < rtx_max_retries
    /\ LET cur == rtx_items[tick_key]
           objs == [rtx_objs EXCEPT ![cur].retries = @ + 1,
                                    ![cur].deadline = rtx_now + rtx_rto]
       IN
       /\ rtx_sent' = Append(rtx_sent, [payload |-> rtx_objs[cur].payload,
                                        addr |-> rtx_objs[cur].addr,
                                        key |-> tick_key])
       /\ rtx_objs' = objs
       /\ rtx_heap' = heappush(objs, tick_popped.heap, cur)
    /\ UNCHANGED <<rtx_pc, rtx_clock, rtx_now, rtx_items, rtx_acked, rtx_exhausted,
                   rtx_rto, rtx_max_retries, outside_rtx>>

\* the while condition is false: tick returns, and nothing in run_server looks
\* at what it did
RtxTickReturn ==
    /\ rtx_pc = "tick"
    /\ ~tick_due
    /\ rtx_pc' = "idle"
    /\ rtx_now' = 0
    /\ UNCHANGED <<rtx_clock, rtx_objs, rtx_heap, rtx_items, rtx_sent,
                   rtx_acked, rtx_exhausted,
                   rtx_rto, rtx_max_retries, outside_rtx>>

RetransmitNext ==
    \/ RtxClock
    \/ RtxAdd
    \/ RtxAck
    \/ RtxTick
    \/ RtxTickSkip
    \/ RtxTickDrop
    \/ RtxTickRetransmit
    \/ RtxTickReturn

RetransmitSpec == RetransmitInit /\ [][RetransmitNext]_vars

(* ------------------------------------------------------------------ *)
(* common/stats.py: threads calling the methods of one TransferStats,   *)
(* one step of a call per action                                       *)
(* ------------------------------------------------------------------ *)
\* the calls made in all
MaxStatsCalls == 4

\* the calls a thread may make, n being the packet_size passed
StatCalls(n) ==
    {[op |-> "record_send", size |-> n, steps |-> record_send(n)],
     [op |-> "record_receive", size |-> n, steps |-> record_receive(n)],
     [op |-> "record_retransmit", size |-> 0, steps |-> record_retransmit],
     [op |-> "record_ack_sent", size |-> 0, steps |-> record_ack_sent],
     [op |-> "record_ack_received", size |-> 0, steps |-> record_ack_received],
     [op |-> "start_transfer", size |-> 0, steps |-> start_transfer],
     [op |-> "end_transfer", size |-> 0, steps |-> end_transfer],
     [op |-> "get_duration", size |-> 0, steps |-> get_duration],
     [op |-> "get_throughput", size |-> 0, steps |-> get_throughput],
     [op |-> "get_retransmit_rate", size |-> 0, steps |-> get_retransmit_rate],
     [op |-> "get_report", size |-> 0, steps |-> get_report]}

\* the history after one more call
made(m, call) ==
    IF call.op = "record_send" THEN
        [m EXCEPT !.calls = @ + 1, !.record_send = @ + 1,
                  !.sent_sizes = @ + call.size]
    ELSE IF call.op = "record_receive" THEN
        [m EXCEPT !.calls = @ + 1, !.record_receive = @ + 1,
                  !.received_sizes = @ + call.size]
    ELSE IF call.op \in {"record_retransmit", "record_ack_sent",
                         "record_ack_received"} THEN
        [m EXCEPT !.calls = @ + 1, ![call.op] = @ + 1]
    ELSE [m EXCEPT !.calls = @ + 1]

StatsInit ==
    /\ StatsIdle
    /\ ServerIdle
    /\ RtxIdle
    /\ RawIdle
    /\ ClientIdle
    /\ CodecIdle

\* the step thread t is at
at(t, kind) ==
    /\ stats_threads[t].steps # << >>
    /\ Head(stats_threads[t].steps).kind = kind
step(t) == Head(stats_threads[t].steps)

\* thread t after its step: the next step, or outside the method after the last
after(call) ==
    IF Tail(call.steps) = << >> THEN NoCall
    ELSE [call EXCEPT !.steps = Tail(@)]

\* a thread calls a method; the n-th call made passes the size n
StatsCall ==
    /\ stats_made.calls < MaxStatsCalls
    /\ \E t \in StatThreads, call \in StatCalls(stats_made.calls + 1) :
        /\ stats_threads[t] = NoCall
        /\ stats_threads' =
              [stats_threads EXCEPT ![t] = [NoCall EXCEPT !.op = call.op,
                                                          !.steps = call.steps]]
        /\ stats_made' = made(stats_made, call)
    /\ UNCHANGED <<stats, stats_lock, stats_clock, stats_version, outside_stats>>

\* with self.lock: entered when the lock is free
StatsAcquire ==
    /\ \E t \in StatThreads :
        /\ at(t, "acquire")
        /\ lock_free(stats_lock)
        /\ stats_lock' = t
        /\ stats_threads' = [stats_threads EXCEPT ![t] = after(@)]
    /\ UNCHANGED <<stats, stats_clock, stats_version, stats_made, outside_stats>>

\* self.f += n: the value of self.f is loaded
StatsLoad ==
    /\ \E t \in StatThreads :
        /\ at(t, "load")
        /\ stats_threads' =
              [stats_threads EXCEPT ![t] = after([@ EXCEPT !.tmp = stats[step(t).field]])]
    /\ UNCHANGED <<stats, stats_lock, stats_clock, stats_version, stats_made,
                   outside_stats>>

\* self.f += n: the loaded value plus n is stored
StatsStore ==
    /\ \E t \in StatThreads :
        /\ at(t, "store")
        /\ stats' = [stats EXCEPT ![step(t).field] = stats_threads[t].tmp + step(t).add]
        /\ stats_threads' = [stats_threads EXCEPT ![t] = after(@)]
    /\ stats_version' = stats_version + 1
    /\ UNCHANGED <<stats_lock, stats_clock, stats_made, outside_stats>>

\* self.f = time.time(): the value time.time() returned last, or a later one
StatsNow ==
    /\ \E t \in StatThreads, now \in {stats_clock, stats_clock + 1} :
        /\ at(t, "now")
        /\ stats_clock' = now
        /\ stats' = [stats EXCEPT ![step(t).field] = now]
        /\ stats_threads' = [stats_threads EXCEPT ![t] = after(@)]
    /\ stats_version' = stats_version + 1
    /\ UNCHANGED <<stats_lock, stats_made, outside_stats>>

\* a reader takes the value of self.f
StatsRead ==
    /\ \E t \in StatThreads :
        /\ at(t, "read")
        /\ stats_threads' =
              [stats_threads EXCEPT ![t] =
                  after([@ EXCEPT !.got = BufferPut(@, step(t).field,
                                                    stats[step(t).field]),
                                  !.seen = @ \cup {stats_version}])]
    /\ UNCHANGED <<stats, stats_lock, stats_clock, stats_version, stats_made,
                   outside_stats>>

\* get_duration's value from what was read
duration(got) ==
    IF got["start_time"] = None \/ got["end_time"] = None THEN 0
    ELSE got["end_time"] - got["start_time"]

\* get_throughput: if duration == 0: return 0.0
StatsBranch ==
    /\ \E t \in StatThreads :
        /\ at(t, "branch")
        /\ stats_threads' =
              [stats_threads EXCEPT ![t] =
                  IF duration(stats_threads[t].got) = 0 THEN NoCall ELSE after(@)]
    /\ UNCHANGED <<stats, stats_lock, stats_clock, stats_version, stats_made,
                   outside_stats>>

\* the end of `with self.lock`
StatsRelease ==
    /\ \E t \in StatThreads :
        /\ at(t, "release")
        /\ stats_threads' = [stats_threads EXCEPT ![t] = after(@)]
    /\ stats_lock' = None
    /\ UNCHANGED <<stats, stats_clock, stats_version, stats_made, outside_stats>>

StatsNext ==
    \/ StatsCall
    \/ StatsAcquire
    \/ StatsLoad
    \/ StatsStore
    \/ StatsNow
    \/ StatsRead
    \/ StatsBranch
    \/ StatsRelease

StatsSpec == StatsInit /\ [][StatsNext]_vars

(* ------------------------------------------------------------------ *)
(* client/receiver.py: receive_file fed by a sender of NumChunks       *)
(* chunks through a channel that drops, duplicates and reorders        *)
(* ------------------------------------------------------------------ *)
\* the chunks of the file, the last one flagged FIN|DATA, and the number of
\* duplicate chunks the channel delivers at most
NumChunks == 3
MaxDuplicates == 2

\* what decode_packet returns for the frame of chunk k
Chunk(k, cid) ==
    [seq_num |-> k, ack_num |-> 0,
     flags |-> IF k = NumChunks - 1 THEN FLAG_FIN_DATA ELSE FLAG_DATA,
     conn_id |-> cid, payload |-> <<k + 1>>]

\* the datagram carrying chunk k
ChunkArrival(k, cid) ==
    [kind |-> "datagram", too_short |-> FALSE, dst_port |-> CLIENT_PORT,
     decoded |-> Chunk(k, cid)]

\* chunk k has not been acknowledged and is not in the buffer
Missing(k) == k >= state.expected_seq /\ k \notin DOMAIN state.buffer

\* one iteration on the datagram of chunk k: the DATA branch.  A copy of a
\* chunk already held is delivered while the channel has duplicates left
LossyDeliver(k) ==
    /\ pc = "receive"
    /\ Missing(k) \/ state.p_duplicate < MaxDuplicates
    /\ LET res == receive_packet(ChunkArrival(k, conn_id), CLIENT_PORT)
           packet == res.packet
       IN
       /\ res # NoResult
       /\ packet # NoPacket
       /\ packet.conn_id = conn_id
       /\ BitAnd(packet.flags, FLAG_DATA) # 0
       /\ DataStep(packet)
       /\ first_copy' =
             IF Len(packet.payload) <= MAX_PAYLOAD_SIZE
                /\ packet.seq_num \notin DOMAIN first_copy
             THEN BufferPut(first_copy, packet.seq_num, packet.payload)
             ELSE first_copy
       /\ data_conn_ids' = data_conn_ids \cup {packet.conn_id}
    /\ n_data' = n_data + 1
    /\ consecutive_timeouts' = 0
    /\ dropped_in_run' = FALSE
    /\ UNCHANGED <<conn_id, exit_status, outside_receive_file>>

\* the retransmission of a chunk that is still missing arrives
LossyRetransmitted(k) == Missing(k) /\ LossyDeliver(k)

LossyNext ==
    \/ RecvNone
    \/ \E k \in 0..(NumChunks - 1) : LossyDeliver(k)
    \/ MainReport

\* every chunk that is still missing is eventually delivered; main goes on
\* when receive_file has returned
LossySpec ==
    /\ Init
    /\ [][LossyNext]_vars
    /\ \A k \in 0..(NumChunks - 1) : WF_vars(LossyRetransmitted(k))
    /\ WF_vars(MainReport)

(* ------------------------------------------------------------------ *)
(* common/rawsocket.py: send_packet on a frame, receive_packet on a    *)
(* datagram                                                            *)
(* ------------------------------------------------------------------ *)
\* the addresses as socket.inet_aton returns them, the ports, the frames
RawSrcIp == <<10, 0, 0, 1>>
RawDstIp == <<10, 0, 0, 2>>
RawPorts == {CLIENT_PORT, SERVER_PORT}
RawFrames ==
    [seq_num : {1}, ack_num : {0}, flags : {FLAG_ACK, FLAG_DATA, FLAG_FIN_DATA},
     payload : {<< >>, <<1>>}, conn_id : ClientConnIds]
RawCalls == [frame : RawFrames, src_port : RawPorts, dst_port : RawPorts]

\* encode_packet(**frame), which does not raise for these frames
FrameBytes(f) ==
    encode_packet(f.seq_num, f.ack_num, f.flags, f.payload, f.conn_id).bytes

\* the datagram a peer puts on the wire for packet_bytes: the IPv4 header, the
\* UDP header of four 16-bit fields, packet_bytes
WireDatagram(packet_bytes, src_port, dst_port) ==
    build_ip_header(RawSrcIp, RawDstIp, 8 + Len(packet_bytes))
        \o pack_shorts(<<src_port, dst_port, 8 + Len(packet_bytes), 0>>)
        \o packet_bytes

\* what recvfrom does: the timeout, datagrams shorter than an IP header and
\* than an IP and a UDP header, a datagram without application bytes, and the
\* datagrams of the frames
RawWires ==
    {SocketTimeout}
    \cup {Received(SubSeq(WireDatagram(<< >>, CLIENT_PORT, SERVER_PORT), 1, n),
                   RawSrcIp) : n \in {10, 20, 28}}
    \cup {Received(WireDatagram(FrameBytes(c.frame), c.src_port, c.dst_port),
                   RawSrcIp) : c \in RawCalls}

\* a frame is about to be sent, or a datagram is in the socket
RawInit ==
    /\ ClientIdle
    /\ CodecIdle
    /\ ServerIdle
    /\ RtxIdle
    /\ StatsIdle
    /\ raw_expected_port = 0
    /\ raw_result = NoResult
    /\ \/ /\ raw_pc = "call"
          /\ raw_call \in RawCalls
          /\ raw_wire = NoDatagram
       \/ /\ raw_pc = "wire"
          /\ raw_call = NoFrame
          /\ raw_wire \in RawWires

\* send_packet(send_sock, encode_packet(...), src_ip, dst_ip, src_port, dst_port)
RawSend ==
    /\ raw_pc = "call"
    /\ LET r == send_packet(FrameBytes(raw_call.frame), RawSrcIp, RawDstIp,
                            raw_call.src_port, raw_call.dst_port)
       IN IF "sendto" \in DOMAIN r
          THEN /\ raw_wire' = Received(r.sendto, RawSrcIp)
               /\ raw_pc' = "wire"
               /\ UNCHANGED raw_result
          ELSE /\ raw_result' = r
               /\ raw_pc' = "send_failed"
               /\ UNCHANGED raw_wire
    /\ UNCHANGED <<raw_call, raw_expected_port, outside_raw>>

\* receive_packet(recv_sock, expected_port, timeout)
RawReceive ==
    /\ raw_pc = "wire"
    /\ \E expected_port \in RawPorts :
        /\ raw_expected_port' = expected_port
        /\ raw_result' = receive_packet_bytes(raw_wire, expected_port)
    /\ raw_pc' = "received"
    /\ UNCHANGED <<raw_call, raw_wire, outside_raw>>

RawNext ==
    \/ RawSend
    \/ RawReceive

RawSpec == RawInit /\ [][RawNext]_vars

(* ------------------------------------------------------------------ *)
(* server/window_manager.py: mark_received and pop_in_order called in  *)
(* any order                                                           *)
(* ------------------------------------------------------------------ *)
\* the largest index given to mark_received, and the payloads
MaxWindowSeq == 8
WindowPayloads == {<<1>>, <<2>>, <<3>>}

\* WindowManager(window_size=cfg.window_size)
WindowInit ==
    /\ ServerIdle
    /\ RtxIdle
    /\ StatsIdle
    /\ RawIdle
    /\ ClientIdle
    /\ CodecIdle

\* mark_received(seq, payload)
WmMarkReceived ==
    /\ \E seq \in 0..MaxWindowSeq, payload \in WindowPayloads :
          wm' = mark_received(wm, seq, payload).wm
    /\ UNCHANGED <<running, server_client, server_stats, file_ctx, server_out,
                   server_last, outside_server>>

\* pop_in_order()
WmPopInOrder ==
    /\ wm' = pop_in_order(wm).wm
    /\ UNCHANGED <<running, server_client, server_stats, file_ctx, server_out,
                   server_last, outside_server>>

WindowNext ==
    \/ WmMarkReceived
    \/ WmPopInOrder

WindowSpec == WindowInit /\ [][WindowNext]_vars

(* ------------------------------------------------------------------ *)
(* server/retransmit_queue.py: the queue built with any rto_ms and     *)
(* max_retries                                                         *)
(* ------------------------------------------------------------------ *)
\* RetransmitQueue(sock, rto_ms, max_retries) with rto_ms 0 or cfg.rto_ms and
\* max_retries 0 or cfg.max_retries
TickInit ==
    /\ running = TRUE
    /\ server_client = {}
    /\ wm = WindowManager
    /\ server_stats = ServerStats
    /\ file_ctx = FileReceiveContext
    /\ server_out = << >>
    /\ server_last = NoPacket
    /\ rtx_pc = "idle"
    /\ rtx_clock = 0
    /\ rtx_now = 0
    /\ rtx_objs = << >>
    /\ rtx_heap = << >>
    /\ rtx_items = EmptyBuffer
    /\ rtx_sent = << >>
    /\ rtx_acked = {}
    /\ rtx_exhausted = {}
    /\ rtx_rto \in {0, rto}
    /\ rtx_max_retries \in {0, max_retries}
    /\ StatsIdle
    /\ RawIdle
    /\ ClientIdle
    /\ CodecIdle

\* one pass of the while loop of tick, or its end
RtxTickStep ==
    \/ RtxTickSkip
    \/ RtxTickDrop
    \/ RtxTickRetransmit
    \/ RtxTickReturn

\* a thread that is inside tick goes on executing it
TickSpec == TickInit /\ [][RetransmitNext]_vars /\ WF_vars(RtxTickStep)

(* ------------------------------------------------------------------ *)
(* Properties                                                          *)
(* ------------------------------------------------------------------ *)
\* f[0] \o f[1] \o ... \o f[n - 1]
RECURSIVE Concat(_, _)
Concat(f, n) == IF n = 0 THEN << >> ELSE Concat(f, n - 1) \o f[n - 1]

\* C1: whenever the chunks passed to store_chunk (each call followed by
\* write_chunk) are exactly the indices 0..N-1 for some N >= 1, in any order and
\* with any duplicates, the file holds payload(0) ++ ... ++ payload(N-1), every
\* index written once, and nothing is left in the buffer.
C1_FileIsConcatenation ==
    \A N \in 1..(MaxFrames + 1) :
        DOMAIN first_copy = 0..(N - 1) =>
            /\ fp = Concat(first_copy, N)
            /\ state.expected_seq = N
            /\ state.chunks_written = N
            /\ DOMAIN state.buffer = {}

\* C1 witness: chunks 0 and 1 have arrived out of order (the first ACK
\* acknowledged nothing), one of them twice, with different payloads
C1_Witness ==
    /\ DOMAIN first_copy = 0..1
    /\ first_copy[0] # first_copy[1]
    /\ state.p_duplicate = 1
    /\ Len(sent) = 3
    /\ sent[1].ack_num = 0

\* C2: expected_seq never decreases, and only write_chunk changes it: store_chunk
\* leaves it as it is for every chunk, and a loop iteration that does not reach
\* the DATA branch (a timeout, a rejected frame, a frame without the DATA bit)
\* leaves it as it is; when it moves, it moves by the number of chunks written.
C2_StoreKeepsExpectedSeq ==
    \A seq \in Seqs, payload \in Payloads :
        store_chunk(state, seq, payload).expected_seq = state.expected_seq

C2_ExpectedSeqStep ==
    /\ state'.expected_seq >= state.expected_seq
    /\ state'.expected_seq - state.expected_seq
         = state'.chunks_written - state.chunks_written
    /\ n_data' = n_data => state'.expected_seq = state.expected_seq

C2_ExpectedSeqMonotone ==
    [](C2_StoreKeepsExpectedSeq) /\ [][C2_ExpectedSeqStep]_vars

\* C2 witness: expected_seq has advanced past two chunks in one drain, and a
\* frame was rejected as well
C2_Witness ==
    /\ state.expected_seq = 2
    /\ state.p_invalid = 1
    /\ Len(sent) = 2
    /\ sent[1].ack_num = 0

\* C3: between frames the buffer holds no index less than or equal to
\* expected_seq, and each buffered index maps to the payload of the first copy of
\* that index passed to store_chunk.
C3_BufferAboveExpected ==
    \A k \in DOMAIN state.buffer :
        /\ k > state.expected_seq
        /\ k \in DOMAIN first_copy
        /\ state.buffer[k] = first_copy[k]

\* C3 witness: index 2 is buffered, a second copy of it has been dropped as a
\* duplicate, and expected_seq has moved past chunk 0
C3_Witness ==
    /\ 2 \in DOMAIN state.buffer
    /\ state.p_duplicate = 1
    /\ state.expected_seq = 1

WithFlags(f) == {i \in DOMAIN sent : sent[i].flags = f}

\* C5: an iteration that enters the DATA branch (a valid frame with the DATA bit
\* and the connection's conn_id: new, out of order or duplicate) hands exactly one
\* ACK frame to send_packet, after store_chunk and write_chunk: seq = 0, empty
\* payload, flags = ACK, the connection's conn_id, ack = expected_seq after the
\* drain.  No other iteration sends anything.
C5_AckStep ==
    /\ n_data' = n_data + 1 =>
        /\ Len(sent') > Len(sent)
        /\ SubSeq(sent', 1, Len(sent)) = sent
        /\ sent'[Len(sent) + 1] =
              [seq_num |-> 0, ack_num |-> state'.expected_seq, flags |-> FLAG_ACK,
               payload |-> << >>, conn_id |-> conn_id]
        /\ \A i \in (Len(sent) + 2)..Len(sent') : sent'[i].flags # FLAG_ACK
    /\ n_data' = n_data => sent' = sent

C6_AcksNonDecreasing ==
    \A i, j \in DOMAIN sent : i <= j => sent[i].ack_num <= sent[j].ack_num

\* C6 witness: an ACK repeated (a chunk buffered out of order), then a higher
\* one, then the FIN|ACK copies
C6_Witness ==
    /\ Len(sent) >= 6
    /\ sent[1].ack_num = 0
    /\ sent[2].ack_num = 1
    /\ sent[3].ack_num = 3
    /\ sent[Len(sent)].flags = FLAG_FIN_ACK

\* C7 (as stated): once fin_seq is set it never changes.
C7_Original == [][state.fin_seq # None => state'.fin_seq = state.fin_seq]_vars

\* C8: FIN|ACK is sent only when fin_seq is set and expected_seq = fin_seq + 1.
\* At that point the cumulative ACK goes first, then exactly three FIN|ACK frames
\* with ack = fin_seq + 1 and the connection's conn_id, and the loop is left; once
\* the loop is left no frame is sent and no chunk is written.
C8_FinAckAtEnd ==
    LET n == Len(sent) IN
    /\ Finished(state) <=> WithFlags(FLAG_FIN_ACK) # {}
    /\ WithFlags(FLAG_FIN_ACK) # {} =>
        /\ state.fin_seq # None
        /\ state.expected_seq = state.fin_seq + 1
        /\ pc # "receive"
        /\ n >= FIN_ACK_COPIES + 1
        /\ WithFlags(FLAG_FIN_ACK) = (n - 2)..n
        /\ \A i \in (n - 2)..n :
               sent[i] = [seq_num |-> 0, ack_num |-> state.fin_seq + 1,
                          flags |-> FLAG_FIN_ACK, payload |-> << >>,
                          conn_id |-> conn_id]
        /\ sent[n - 3].flags = FLAG_ACK
        /\ sent[n - 3].ack_num = state.fin_seq + 1

C8_NothingAfterLoop ==
    pc # "receive" => (sent' = sent /\ fp' = fp /\ state' = state)

C9_Original == exit_status = 0 => Finished(state)

\* C10 (as stated): when the loop is left for inactivity, the receive attempts
\* counted in consecutive_timeouts all ended by the timeout: no dropped datagram
\* is among them.
C10_Original ==
    (pc # "receive" /\ consecutive_timeouts >= max_consecutive_timeouts)
        => ~dropped_in_run

\* C11: a frame that fails decoding, or decodes with another conn_id, is never
\* acknowledged and changes nothing but the counters: the iteration that counts
\* it as invalid adds one to p_total and to p_invalid and leaves expected_seq,
\* the buffer, fin_seq, the file and the frames sent as they are; every packet
\* that entered the DATA branch (the only place that sends) carried the
\* connection's conn_id, and every frame counted is counted valid or invalid.
C11_RejectStep ==
    state'.p_invalid # state.p_invalid =>
        /\ state' = [state EXCEPT !.p_total = @ + 1, !.p_invalid = @ + 1]
        /\ fp' = fp
        /\ sent' = sent
        /\ n_data' = n_data

C11_OnlyOwnConnId ==
    /\ data_conn_ids \subseteq {conn_id}
    /\ state.p_total = state.p_valid + state.p_invalid
    /\ n_data <= state.p_valid

C11_RejectedNeverAcked == [](C11_OnlyOwnConnId) /\ [][C11_RejectStep]_vars

\* C11 witness: two frames have been rejected and one chunk accepted, written
\* and acknowledged
C11_Witness ==
    /\ state.p_invalid = 2
    /\ n_data = 1
    /\ Len(sent) = 1
    /\ state.expected_seq = 1

\* C12 (as stated): store_chunk with an index below expected_seq or already
\* buffered adds one to p_duplicate and changes nothing else.
C12_Original ==
    \A seq \in Seqs, payload \in Payloads :
        (seq < state.expected_seq \/ seq \in DOMAIN state.buffer) =>
            store_chunk(state, seq, payload) = [state EXCEPT !.p_duplicate = @ + 1]

\* C12 (amended): that holds for a payload of at most MAX_PAYLOAD_SIZE bytes; a
\* longer payload is dropped by the size guard before the duplicate test, and
\* the call then changes nothing, p_duplicate included.
C12_DuplicateCountedAfterSizeGuard ==
    \A seq \in Seqs, payload \in Payloads :
        (seq < state.expected_seq \/ seq \in DOMAIN state.buffer) =>
            store_chunk(state, seq, payload) =
                IF Len(payload) <= MAX_PAYLOAD_SIZE
                THEN [state EXCEPT !.p_duplicate = @ + 1]
                ELSE state

\* C12 witness: chunk 0 (empty) is written, chunk 2 is buffered with a payload,
\* and one duplicate has been counted
C12_Witness ==
    /\ state.expected_seq = 1
    /\ fp = << >>
    /\ 2 \in DOMAIN state.buffer
    /\ state.buffer[2] = <<1>>
    /\ state.p_duplicate = 1

\* C13: store_chunk inserts a new chunk with index 1,000,000, and drops a chunk
\* with index 1,000,001 and a chunk with a payload longer than MAX_PAYLOAD_SIZE
\* without changing the buffer, expected_seq or any counter.
C13_SeqAndSizeGuards ==
    /\ \A payload \in Payloads :
         (Len(payload) <= MAX_PAYLOAD_SIZE /\ MAX_SEQ >= state.expected_seq
            /\ MAX_SEQ \notin DOMAIN state.buffer) =>
             store_chunk(state, MAX_SEQ, payload) =
                 [state EXCEPT !.buffer = BufferPut(@, MAX_SEQ, payload)]
    /\ \A payload \in Payloads : store_chunk(state, MAX_SEQ + 1, payload) = state
    /\ \A seq \in Seqs, payload \in Payloads :
         Len(payload) > MAX_PAYLOAD_SIZE => store_chunk(state, seq, payload) = state

\* C13 witness: three DATA frames were stored, with index 1,000,000, with index
\* 1,000,001 and with an oversize payload, and only the first is in the buffer
C13_Witness ==
    /\ n_data = 3
    /\ DOMAIN state.buffer = {MAX_SEQ}
    /\ DOMAIN first_copy = {MAX_SEQ, MAX_SEQ + 1}
    /\ state.p_duplicate = 0
    /\ state.expected_seq = 0

\* the six flags bytes the protocol defines
LegalFlags ==
    {FLAG_SYN, FLAG_SYN_ACK, FLAG_DATA, FLAG_FIN_DATA, FLAG_ACK, FLAG_FIN_ACK}

\* raw_data is a frame just as encode_packet returned it
Intact == codec_frame # NoFrame /\ codec_damage = "none"

\* C14 (as stated): decode_packet(encode_packet(F)) is a record with the
\* seq_num, ack_num, flags, conn_id and payload of F and payload_length =
\* len(payload), for every F with legal flags and at most 1400 payload bytes.
C14_Original ==
    (codec_pc = "decoded" /\ Intact /\ codec_frame.flags \in LegalFlags) =>
        /\ "seq_num" \in DOMAIN codec_result
        /\ codec_result.seq_num = codec_frame.seq_num
        /\ codec_result.ack_num = codec_frame.ack_num
        /\ codec_result.flags = codec_frame.flags
        /\ codec_result.conn_id = codec_frame.conn_id
        /\ codec_result.payload = codec_frame.payload
        /\ codec_result.payload_length = Len(codec_frame.payload)

\* the payload_length field of b differs from the number of bytes after the header
LengthMismatch(b) ==
    Len(b) >= CUSTOM_HEADER_SIZE
        /\ unpack_uint(b, 11, 12) # Len(b) - CUSTOM_HEADER_SIZE

\* the checksum field of b differs from the checksum of b with that field zeroed
ChecksumMismatch(b) ==
    Len(b) >= CUSTOM_HEADER_SIZE
        /\ unpack_uint(b, 9, 10) # compute_checksum([b EXCEPT ![9] = 0, ![10] = 0])

\* C15 (as stated): decode_packet returns None, never a record and never an
\* exception, for an input shorter than 15 bytes, with a payload_length that
\* differs from the trailing byte count, or with a checksum that does not match.
C15_Original ==
    (codec_pc = "decoded"
        /\ (Len(raw_data) < CUSTOM_HEADER_SIZE \/ LengthMismatch(raw_data)
              \/ ChecksumMismatch(raw_data)))
        => codec_result = NoPacket

\* C16 (as stated): decode_packet returns None for a frame whose flags byte is
\* not one of the six legal ones, its length and checksum being correct.
C16_Original ==
    (codec_pc = "decoded" /\ Intact /\ codec_frame.flags \notin LegalFlags) =>
        codec_result = NoPacket

\* C17: encode_packet returns 15 + len(payload) bytes for every payload of at
\* most 1400 bytes, 1415 bytes for one of exactly 1400, and for a payload of
\* 1401 bytes or more it raises ValueError and returns no bytes.
C17_EncodeSizeLimit ==
    (codec_frame # NoFrame /\ codec_pc # "frame") =>
        IF Len(codec_frame.payload) <= MAX_PAYLOAD_SIZE
        THEN /\ codec_pc # "encode_failed"
             /\ codec_damage = "none" =>
                  Len(raw_data) = CUSTOM_HEADER_SIZE + Len(codec_frame.payload)
             /\ codec_damage = "none" =>
                  SubSeq(raw_data, CUSTOM_HEADER_SIZE + 1, Len(raw_data))
                      = codec_frame.payload
        ELSE /\ codec_pc = "encode_failed"
             /\ codec_result = Raised("ValueError")
             /\ raw_data = << >>

\* C17 witness: a frame with a payload of exactly 1400 bytes is encoded
C17_Witness ==
    /\ codec_pc = "wire"
    /\ Intact
    /\ Len(codec_frame.payload) = MAX_PAYLOAD_SIZE
    /\ Len(raw_data) = CUSTOM_HEADER_SIZE + MAX_PAYLOAD_SIZE

\* C18 (as stated): decode_packet returns None for an encoded frame with one
\* bit of one of its 15 header bytes inverted.
C18_Original ==
    (codec_pc = "decoded" /\ codec_damage = "flip") => codec_result = NoPacket

\* the k-th big-endian 16-bit word of data (k from 1), a last odd byte being the
\* high byte of a word whose low byte is zero
WordOf(data, k) ==
    data[2 * k - 1] * 256 + (IF 2 * k <= Len(data) THEN data[2 * k] ELSE 0)

\* the sum of the words lo..hi of data, as an unbounded integer
RECURSIVE WordSum(_, _, _)
WordSum(data, lo, hi) ==
    IF lo > hi THEN 0
    ELSE IF lo = hi THEN WordOf(data, lo)
    ELSE WordSum(data, lo, (lo + hi) \div 2) + WordSum(data, (lo + hi) \div 2 + 1, hi)

\* the number of words of data
NumWords(data) == (Len(data) + 1) \div 2

\* the 16-bit sum with end-around carry of words whose integer sum is total
EndAroundCarry(total) == IF total = 0 THEN 0 ELSE ((total - 1) % 65535) + 1

\* C19: compute_checksum returns a value in 0..0xFFFF, the 16-bit complement of
\* the end-around-carry sum of the big-endian words of its input (a last odd
\* byte taken as a high byte); it is 0xFFFF for the empty input; the running sum
\* is at most 0xFFFF after every pass of the loop (checked pass by pass for
\* inputs of at most 18 bytes).
C19_ChecksumValue ==
    codec_pc = "summed" =>
        /\ codec_checksum \in 0..65535
        /\ codec_checksum
             = 65535 - EndAroundCarry(WordSum(raw_data, 1, NumWords(raw_data)))
        /\ raw_data = << >> => codec_checksum = 65535
        /\ Len(raw_data) <= CUSTOM_HEADER_SIZE + 3 =>
             \A k \in 0..NumWords(raw_data) :
                 checksum_loop(raw_data, 0, 2 * k, 0) \in 0..65535

\* C19 witness: the checksum of ff ff 01, an odd number of bytes whose sum
\* carries out of 16 bits, is 0xFEFF
C19_Witness ==
    /\ codec_pc = "summed"
    /\ raw_data = <<255, 255, 1>>
    /\ codec_checksum = 65279

\* C20: send_syn_request hands at most 5 SYN frames to send_packet, each
\* followed by a wait of at most max_wait_time plus one receive timeout (2.5 s),
\* made of receive_packet calls of at most 0.5 s; it always returns; it returns
\* True only after a packet with the SYN_ACK flags was read; when it returns
\* False all 5 frames were sent and every wait ran out, and main then returns 1
\* with receive_file never called: no ClientState change, no byte written.
C20_Bounded ==
    /\ Len(sent) = hs_attempt
    /\ hs_attempt <= retries
    /\ \A i \in DOMAIN sent : sent[i] = Frame(0, 0, FLAG_SYN, filename, conn_id)
    /\ hs_elapsed <= max_wait_time + syn_recv_timeout
    /\ pc = "receive" => hs_syn_ack
    /\ pc \in {"handshake_failed", "exit"} =>
          /\ ~hs_syn_ack
          /\ Len(sent) = retries
          /\ hs_elapsed >= max_wait_time
    /\ pc = "exit" => exit_status = 1
    /\ pc # "exit" => exit_status = None
    /\ state = ClientState /\ fp = << >> /\ n_data = 0

C20_WaitStep ==
    /\ hs_elapsed' <= hs_elapsed + syn_recv_timeout
    /\ pc \in {"handshake_failed", "exit"} => pc' \in {"handshake_failed", "exit"}

C21_Original ==
    pc = "receive" => hs_syn_ack /\ hs_syn_ack_conn_id = conn_id

\* the last datagram came from the bound peer and decoded to a packet
HandledPacket ==
    /\ server_last # NoPacket
    /\ server_last.decoded # NoPacket
    /\ server_client = {server_last.addr}

\* the last thing given to sock.sendto
LastOut == server_out[Len(server_out)]

\* C22: when the server has handled a valid SYN frame (payload = filename,
\* conn_id = c), the frame it sent in reply goes to the sender of the SYN and
\* has flags SYN|ACK and conn_id = c.
C22_Original ==
    (HandledPacket /\ server_last.decoded.flags = FLAG_SYN) =>
        /\ server_out # << >>
        /\ LastOut.addr = server_last.addr
        /\ LastOut.frame.flags = FLAG_SYN_ACK
        /\ LastOut.frame.conn_id = server_last.decoded.conn_id

\* C23: every frame the server emits, every ACK built by Sender.send_ack
\* included, carries the conn_id of the frame it answers.
C23_Original ==
    [][server_out' # server_out =>
          server_out'[Len(server_out')].frame.conn_id = server_last'.decoded.conn_id]_vars

\* C30: for a duplicate DATA frame (index below expected_seq, or already
\* buffered) the server receive path returns the current cumulative
\* acknowledgement, expected_seq - 1 as for a new in-window frame, and not a
\* value taken from the duplicate's own index.
C30_Original ==
    [][server_stats'.dup_in = server_stats.dup_in + 1
          => server_last'.res.ack_seq = {wm.expected_seq - 1}]_vars

\* C24: when a record that was retransmitted max_retries times is due again,
\* the transfer ends as failed and the server loop stops; the record is not
\* dropped with the loop going on.
C24_Original ==
    (rtx_pc = "idle" /\ rtx_exhausted # {}) => ~running

\* the entries of self.heap whose key has a record in self.items
LiveTimers(key) ==
    {i \in DOMAIN rtx_heap :
        rtx_objs[rtx_heap[i]].key = key /\ key \in DOMAIN rtx_items}

\* C25: after any sequence of add, ack and tick calls, a key added twice
\* included, each key has at most one record and at most one pending timer entry.
C25_Original ==
    \A key \in RtxKeys :
        /\ Cardinality({k \in DOMAIN rtx_items : k = key}) <= 1
        /\ Cardinality(LiveTimers(key)) <= 1

\* C26: once ack(key) was called the record of key is gone at once, and stays
\* away until key is added again; and no pass of tick retransmits for a key
\* that was acked and not added again.
C26_AckedNotRetransmitted ==
    /\ [](\A key \in rtx_acked : key \notin DOMAIN rtx_items)
    /\ [][Len(rtx_sent') > Len(rtx_sent) =>
            rtx_sent'[Len(rtx_sent')].key \notin rtx_acked]_vars

\* C26 witness: a record was retransmitted once, then acked, and a later tick
\* took its timer entry off the heap without sending
C26_Witness ==
    /\ rtx_pc = "idle"
    /\ Len(rtx_objs) = 1
    /\ Len(rtx_sent) = 1
    /\ rtx_acked = {rtx_objs[1].key}
    /\ rtx_exhausted = {}
    /\ rtx_heap = << >>

\* C27: the records held for retransmission never number more than the window
\* size, after any sequence of send, ACK and timer events.
C27_Original ==
    Cardinality(DOMAIN rtx_items) <= window_size

\* no thread is inside a method of the TransferStats object
Quiescent == \A t \in StatThreads : stats_threads[t] = NoCall

\* C28: whatever the interleaving of the threads' calls of record_send,
\* record_receive, record_retransmit, record_ack_sent and record_ack_received,
\* once all calls have returned each packet counter equals the number of calls
\* of its mutator and each byte counter the sum of the sizes passed.
C28_NoLostIncrement ==
    Quiescent =>
        /\ stats.packets_sent = stats_made.record_send
        /\ stats.bytes_sent = stats_made.sent_sizes
        /\ stats.packets_received = stats_made.record_receive
        /\ stats.bytes_received = stats_made.received_sizes
        /\ stats.packets_retransmitted = stats_made.record_retransmit
        /\ stats.acks_sent = stats_made.record_ack_sent
        /\ stats.acks_received = stats_made.record_ack_received

\* C28 witness: two record_send calls, a record_receive and a
\* record_retransmit have returned
C28_Witness ==
    /\ Quiescent
    /\ stats_made.calls = MaxStatsCalls
    /\ stats.packets_sent = 2
    /\ stats.packets_received = 1
    /\ stats.packets_retransmitted = 1
    /\ stats.bytes_sent + stats.bytes_received > 3

\* C29: every reader (get_duration, get_throughput, get_retransmit_rate,
\* get_report) takes all the values of one call from one state of the object:
\* no assignment by a mutator falls between two reads of the same call.
C29_Original ==
    \A t \in StatThreads : Cardinality(stats_threads[t].seen) <= 1

(* ------------------------------------------------------------------ *)
(* C31: a datagram from an address other than the bound peer           *)
(* ------------------------------------------------------------------ *)
\* C31: once state.client is bound, a datagram from any other address is
\* dropped: handle_datagram returns no ack_seq and no close, nothing is sent,
\* and the window, the file and the bound peer are as before
C31_OtherPeerDropped ==
    [][(/\ server_client # {}
        /\ server_stats'.pkts_in = server_stats.pkts_in + 1
        /\ server_last'.addr \notin server_client)
       => /\ server_last'.res = ReceiveResult({}, FALSE)
          /\ running'
          /\ server_out' = server_out
          /\ wm' = wm
          /\ file_ctx' = file_ctx
          /\ server_client' = server_client]_vars

\* the bound peer has had a chunk written, and the last datagram, a chunk the
\* window would have taken, came from the other address
C31_Witness ==
    /\ server_last # NoPacket
    /\ server_last.decoded # NoPacket
    /\ server_client # {}
    /\ server_last.addr \notin server_client
    /\ file_ctx.written_chunks = 1
    /\ server_last.decoded.flags = FLAG_DATA
    /\ server_last.decoded.seq_num = wm.expected_seq

(* ------------------------------------------------------------------ *)
(* C32: chunks 0, 1, 2 received in the order 2, 0, 1                   *)
(* ------------------------------------------------------------------ *)
\* the iteration is the DATA branch for the first copy of chunk seq
FirstCopyStep(seq) ==
    /\ n_data' = n_data + 1
    /\ seq \notin DOMAIN first_copy
    /\ DOMAIN first_copy' = DOMAIN first_copy \cup {seq}

\* the receiver after chunk 2 (FIN|DATA) alone, after 2 then 0, after 2, 0, 1
AfterTwo(st, out, cid) ==
    /\ DOMAIN st.buffer = {2} /\ st.expected_seq = 0 /\ st.fin_seq = 2
    /\ out = <<Frame(0, 0, FLAG_ACK, << >>, cid)>>
AfterTwoZero(st, out, cid) ==
    /\ DOMAIN st.buffer = {2} /\ st.expected_seq = 1 /\ st.fin_seq = 2
    /\ out = <<Frame(0, 0, FLAG_ACK, << >>, cid), Frame(0, 1, FLAG_ACK, << >>, cid)>>
AfterTwoZeroOne(st, out, cid) ==
    /\ DOMAIN st.buffer = {} /\ st.expected_seq = 3 /\ st.fin_seq = 2
    /\ Len(out) >= 4
    /\ SubSeq(out, 1, 4) =
          <<Frame(0, 0, FLAG_ACK, << >>, cid), Frame(0, 1, FLAG_ACK, << >>, cid),
            Frame(0, 3, FLAG_ACK, << >>, cid), Frame(0, 3, FLAG_FIN_ACK, << >>, cid)>>
    /\ \A i \in 4..Len(out) : out[i] = Frame(0, 3, FLAG_FIN_ACK, << >>, cid)

Completed ==
    /\ pc \in {"returned", "exit"}
    /\ state.expected_seq = NumChunks
    /\ fp = [i \in 1..NumChunks |-> i]
    /\ Len(sent) > FIN_ACK_COPIES
    /\ sent[Len(sent) - FIN_ACK_COPIES] = Frame(0, NumChunks, FLAG_ACK, << >>, conn_id)
    /\ \A i \in (Len(sent) - FIN_ACK_COPIES + 1)..Len(sent) :
          sent[i] = Frame(0, NumChunks, FLAG_FIN_ACK, << >>, conn_id)

C34_Original ==
    (raw_call # NoFrame /\ raw_pc # "call") =>
        LET packet_bytes == FrameBytes(raw_call.frame) IN
        /\ raw_pc \in {"wire", "received"}
        /\ Len(raw_wire.raw_data) = 20 + 8 + Len(packet_bytes)
        /\ SubSeq(raw_wire.raw_data, 21, 28) =
              pack_shorts(<<raw_call.src_port, raw_call.dst_port,
                            8 + Len(packet_bytes), 0>>)
        /\ SubSeq(raw_wire.raw_data, 29, Len(raw_wire.raw_data)) = packet_bytes
        /\ raw_pc = "received" =>
              raw_result = IF raw_expected_port = raw_call.dst_port
                           THEN [packet |-> raw_call.frame, sender_ip |-> RawSrcIp,
                                 src_port |-> raw_call.src_port]
                           ELSE NoResult

(* ------------------------------------------------------------------ *)
(* C35: when tick retransmits                                          *)
(* ------------------------------------------------------------------ *)
\* the retransmissions of object i so far: its payload is <<i>>
SentOf(i) == {n \in DOMAIN rtx_sent : rtx_sent[n].payload = <<i>>}

\* C35: tick retransmits a record only when at least rto has passed since
\* the record was added or last retransmitted (its deadline, which is that
\* time plus rto, is not after now) and its retries are below max_retries;
\* the retransmission adds one to retries and sets the deadline to now + rto;
\* no record is retransmitted more than max_retries times
C35_Original ==
    /\ [][Len(rtx_sent') > Len(rtx_sent) =>
            LET cur == rtx_items[rtx_sent'[Len(rtx_sent')].key] IN
            /\ rtx_objs[cur].deadline <= rtx_now
            /\ rtx_objs[cur].retries < max_retries
            /\ rtx_objs'[cur].retries = rtx_objs[cur].retries + 1
            /\ rtx_objs'[cur].deadline = rtx_now + rto]_vars
    /\ [](\A i \in DOMAIN rtx_objs : Cardinality(SentOf(i)) <= max_retries)

(* ------------------------------------------------------------------ *)
(* C36: the receive window                                             *)
(* ------------------------------------------------------------------ *)
\* C36: after any sequence of mark_received and pop_in_order calls the buffer
\* holds at most window_size entries, every buffered index lies in
\* [expected_seq, expected_seq + window_size), an index outside the window is
\* never stored, and expected_seq never decreases
C36_WindowBounded ==
    /\ [](/\ Cardinality(DOMAIN wm.buffer) <= window_size
          /\ \A k \in DOMAIN wm.buffer :
                wm.expected_seq <= k /\ k < wm.expected_seq + window_size)
    /\ [][/\ wm'.expected_seq >= wm.expected_seq
          /\ \A k \in DOMAIN wm'.buffer \ DOMAIN wm.buffer :
                wm.expected_seq <= k /\ k < wm.expected_seq + window_size]_vars

\* the window has moved three indices on and is full again, with different
\* payloads
C36_Witness ==
    /\ wm.expected_seq = 3
    /\ DOMAIN wm.buffer = {3, 4}
    /\ wm.received = 0..4
    /\ wm.buffer[3] # wm.buffer[4]

(* ------------------------------------------------------------------ *)
(* C37: nothing is written beyond fin_seq                              *)
(* ------------------------------------------------------------------ *)
\* C37: once fin_seq is set, no chunk with an index greater than fin_seq is
\* written to the file and expected_seq never exceeds fin_seq + 1; so when
\* the chunks 0..fin_seq have all arrived the loop has ended on its
\* termination test, whatever else was buffered
C37_Original ==
    /\ [][state'.fin_seq # None =>
            \A k \in state.expected_seq..(state'.expected_seq - 1) :
                k <= state'.fin_seq]_vars
    /\ [](state.fin_seq # None => state.expected_seq <= state.fin_seq + 1)
    /\ []((/\ state.fin_seq # None
           /\ \A k \in 0..state.fin_seq : k \in DOMAIN first_copy)
          => pc \in {"returned", "exit"} /\ Finished(state))

(* ------------------------------------------------------------------ *)
(* C38: which frames set fin_seq                                       *)
(* ------------------------------------------------------------------ *)
\* C38: fin_seq is only ever set to the index of a FIN|DATA chunk that
\* store_chunk accepted (an index of at most MAX_SEQ whose payload, of at
\* most MAX_PAYLOAD_SIZE bytes, was stored now or earlier); a FIN|DATA frame
\* that store_chunk drops leaves fin_seq as it is
C38_Original ==
    [][state'.fin_seq # state.fin_seq =>
          /\ state'.fin_seq <= MAX_SEQ
          /\ state'.fin_seq \in DOMAIN first_copy']_vars

(* ------------------------------------------------------------------ *)
(* C39: the payload of the terminal chunk at the server                *)
(* ------------------------------------------------------------------ *)
\* C39: in the server's receive path a frame flagged FIN|DATA from the bound
\* peer, with a new index inside the window, has its payload stored like that
\* of any other chunk: written to the file when its index is expected_seq,
\* buffered otherwise, before the frame closes the endpoint
C39_Original ==
    [][(/\ server_stats'.pkts_in = server_stats.pkts_in + 1
        /\ server_last'.decoded # NoPacket
        /\ server_last'.decoded.flags = FLAG_FIN_DATA
        /\ server_client' = {server_last'.addr}
        /\ wm.expected_seq <= server_last'.decoded.seq_num
        /\ server_last'.decoded.seq_num < wm.expected_seq + window_size
        /\ server_last'.decoded.seq_num \notin wm.received)
       => LET d == server_last'.decoded IN
          IF d.seq_num = wm.expected_seq
          THEN /\ Len(file_ctx'.written) >= Len(file_ctx.written) + Len(d.payload)
               /\ SubSeq(file_ctx'.written, 1,
                         Len(file_ctx.written) + Len(d.payload))
                     = file_ctx.written \o d.payload
          ELSE /\ d.seq_num \in DOMAIN wm'.buffer
               /\ wm'.buffer[d.seq_num] = d.payload]_vars

(* ------------------------------------------------------------------ *)
(* C40: tick terminates                                                *)
(* ------------------------------------------------------------------ *)
\* C40: every call of tick returns, in every queue state add, ack and tick
\* lead to, for rto = 0 (a re-armed timer is due again at once) as for
\* rto > 0, and for max_retries = 0 as for max_retries > 0
C40_TickTerminates == (rtx_pc = "tick") ~> (rtx_pc = "idle")

\* with rto = 0, one call of tick has retransmitted a record max_retries
\* times, removed it and returned, no time having passed since the add
C40_Witness ==
    /\ rtx_pc = "idle"
    /\ rtx_rto = 0
    /\ rtx_max_retries = max_retries
    /\ rtx_clock = 0
    /\ Len(rtx_objs) = 1
    /\ Len(rtx_sent) = max_retries
    /\ rtx_exhausted = {rtx_objs[1].key}
    /\ rtx_heap = << >>

====
